---- MODULE Spec2Model ----
(***************************************************************************)
(* Model of the storage area record store of zephyr_goodies                *)
(* (subsys/storage/storage_area/storage_area_store.c) on top of the        *)
(* storage area layer (storage_area.c, storage_area_flash.c).              *)
(*                                                                         *)
(* The medium is an array of bytes.  Every function of the store is an     *)
(* operator that takes the state of the running call (medium, runtime      *)
(* data of the store, log of the device writes) and returns the state the  *)
(* C function leaves behind, with its return code in the field rc.         *)
(*                                                                         *)
(* The result of a step that later steps depend on is bound to a name by   *)
(* a set with one element:  CHOOSE res \in {f(s1) : s1 \in {e}} : TRUE      *)
(* is f(e), and  \E s \in {e} : P(s)  is P(e); e is evaluated once.         *)
(***************************************************************************)
EXTENDS Integers, Sequences, FiniteSets, TLC

(***************************************************************************)
(* Bounds of the model.                                                    *)
(***************************************************************************)
\* number of API calls in one behaviour of Spec
MaxOps == 7
\* number of API calls in one behaviour of SpecPersist
MaxOpsPersist == 9
\* number of API calls in one behaviour of SpecCut
MaxOpsCut == 7
\* number of API calls and corruptions in one behaviour of SpecTorn
MaxOpsTorn == 6
\* number of API calls in one behaviour of SpecWrap
MaxOpsWrap == 12
\* number of calls in one behaviour of SpecArea
MaxOpsArea == 3
\* number of device operations after which the power may be cut
MaxFuel == 6
\* number of API calls in one behaviour of SpecUpdate
MaxOpsUpdate == 5

\* number of API calls in one behaviour of SpecLife
MaxOpsLife == 5

\* number of API calls in one behaviour of SpecFault
MaxOpsFault == 7

\* number of API calls in one behaviour of SpecRace
MaxOpsRace == 6

\* number of API calls in one behaviour of SpecSpace
MaxOpsSpace == 5

\* device operations of a mount before the device fails, at most
MaxFuelMount == 2

\* number of API calls in one behaviour of SpecRetry
MaxOpsRetry == 4

\* device operations of a writev before the device fails, at most
MaxFuelRetry == 1

\* number of API calls in one behaviour of SpecAdvance
MaxOpsAdvance == 6

\* number of API calls in one behaviour of SpecErase
MaxOpsErase == 7

\* number of API calls in one behaviour of SpecCookie
MaxOpsCookie == 6

\* number of API calls in one behaviour of SpecRo
MaxOpsRo == 4

\* number of API calls in one behaviour of SpecRefuse
MaxOpsRefuse == 4

\* number of calls in one behaviour of SpecReject
MaxOpsReject == 3


\* the spans of a write of SpecBuffer
MaxSpans == 3

\* the calls of a run of SpecAuto
MaxOpsAuto == 2

\* the calls of a run of SpecOrder
MaxOpsOrder == 6

\* the calls of a run of SpecMove
MaxOpsMove == 6

\* the calls of a run of SpecValid
MaxOpsValid == 4

\* the calls of a run of SpecRange
MaxOpsRange == 5

\* the calls of a behaviour of SpecScan
MaxOpsScan == 5

\* the calls of a behaviour of SpecFrame
MaxOpsFrame == 5

(***************************************************************************)
(* Constants of storage_area_store.c.                                      *)
(***************************************************************************)
SAS_MAGIC == 240
SAS_HDRSIZE == 4
SAS_CRCSIZE == 4
SAS_MINBUFSIZE == 32
SAS_FILLVALUE == 255

\* size_t arithmetic is modular.  TLC's integers are 32 bit signed, so the
\* modulus of the model is 2^30: every genuine size of the model is below
\* 2^17 and a wrapped difference is above 2^30 - 2^17, so that each
\* comparison has the outcome it has modulo 2^32.
SizeMod == 2^30
USub(a, b) == (a - b + SizeMod) % SizeMod
U8(a) == (a + 256) % 256
U16(a) == a % 65536

SAS_MIN(a, b) == IF a < b THEN a ELSE b
SAS_MAX(a, b) == IF a < b THEN b ELSE a
\* align is a power of two: (num + align - 1) & ~(align - 1)
SAS_ALIGNUP(num, align) == ((num + (align - 1)) \div align) * align
SAS_ALIGNDOWN(num, align) == (num \div align) * align

(***************************************************************************)
(* Bytes, little endian, bitwise operations.                               *)
(***************************************************************************)
RECURSIVE Xor(_, _)
Xor(a, b) ==
    IF a = 0 THEN b
    ELSE IF b = 0 THEN a
    ELSE ((a + b) % 2) + 2 * Xor(a \div 2, b \div 2)

RECURSIVE And(_, _)
And(a, b) ==
    IF a = 0 \/ b = 0 THEN 0
    ELSE ((a % 2) * (b % 2)) + 2 * And(a \div 2, b \div 2)

Take(s, n) == SubSeq(s, 1, n)
Drop(s, n) == SubSeq(s, n + 1, Len(s))
Fill(n, v) == [i \in 1..n |-> v]

RECURSIVE Concat(_)
Concat(ss) == IF ss = <<>> THEN <<>> ELSE Head(ss) \o Concat(Tail(ss))

sys_put_le16(v) == <<v % 256, (v \div 256) % 256>>
sys_get_le16(b) == b[1] + 256 * b[2]

(***************************************************************************)
(* crc32_ieee_update of zephyr (sys/crc.h): CRC-32/IEEE, polynomial        *)
(* 0xEDB88320, computed a nibble at a time with a table of 16 entries.     *)
(* A crc is a tuple of 8 nibbles, least significant first.                 *)
(***************************************************************************)
Nibbles(lo, hi) ==
    << lo % 16, (lo \div 16) % 16, (lo \div 256) % 16, (lo \div 4096) % 16,
       hi % 16, (hi \div 16) % 16, (hi \div 256) % 16, (hi \div 4096) % 16 >>

\* table[i] as (low 16 bits, high 16 bits)
crc_table ==
    << Nibbles(0, 0),         Nibbles(4196, 7607),   Nibbles(8392, 15214),
       Nibbles(12460, 9945),  Nibbles(16784, 30428), Nibbles(20980, 27499),
       Nibbles(24920, 19890), Nibbles(28988, 20485), Nibbles(33568, 60856),
       Nibbles(37700, 61455), Nibbles(41960, 54998), Nibbles(45964, 52065),
       Nibbles(49840, 39780), Nibbles(53972, 34515), Nibbles(57976, 40970),
       Nibbles(61980, 48573) >>

CrcNot(c) == [i \in 1..8 |-> 15 - c[i]]
\* (crc >> 4) ^ table[(crc ^ n) & 0x0f]
CrcNibble(c, n) ==
    LET t == crc_table[Xor(c[1], n) + 1]
    IN  <<Xor(c[2], t[1]), Xor(c[3], t[2]), Xor(c[4], t[3]), Xor(c[5], t[4]),
          Xor(c[6], t[5]), Xor(c[7], t[6]), Xor(c[8], t[7]), t[8]>>

RECURSIVE CrcBytes(_, _)
CrcBytes(c, data) ==
    IF data = <<>> THEN c
    ELSE CHOOSE res \in
             {CrcBytes(c1, Tail(data)) :
              c1 \in {CrcNibble(CrcNibble(c, Head(data) % 16),
                                Head(data) \div 16)}} : TRUE

crc32_ieee_update(crc, data) == CrcNot(CrcBytes(CrcNot(crc), data))

SAS_CRCINIT == Nibbles(0, 0)

\* sys_put_le32 / sys_get_le32 on a crc
sys_put_le32(c) == [k \in 1..4 |-> c[2 * k - 1] + 16 * c[2 * k]]
sys_get_le32(b) == [i \in 1..8 |-> IF i % 2 = 1 THEN b[(i + 1) \div 2] % 16
                                                ELSE b[i \div 2] \div 16]

(***************************************************************************)
(* Storage area: the descriptor c has write_size, erase_size,              *)
(* erase_blocks, props; the state st of a running call has the medium mem, *)
(* the store's runtime data (sector, loc, wrapcnt, ready), the log of the  *)
(* device operations of the call, the number of device operations left     *)
(* before the power is cut (fuel; -1: the power stays on), the erase       *)
(* blocks the device cannot read (badrd) and the return code rc of the     *)
(* last function.                                                          *)
(***************************************************************************)
R(st, rc) == [st EXCEPT !.rc = rc]
Ok(st) == st.rc = "0"

STORAGE_AREA_READONLY(c) == "READONLY" \in c.props
STORAGE_AREA_FOVRWRITE(c) == "FOVRWRITE" \in c.props
STORAGE_AREA_LOVRWRITE(c) == "LOVRWRITE" \in c.props
STORAGE_AREA_AUTOERASE(c) == "AUTOERASE" \in c.props
STORAGE_AREA_ERASEVALUE(c) == IF "ZEROERASE" \in c.props THEN 0 ELSE 255
STORAGE_AREA_SIZE(c) == c.erase_size * c.erase_blocks

\* a range check of the length alone
storage_area_range_valid_len(c, start, len) == ~(STORAGE_AREA_SIZE(c) < len)

storage_area_range_valid(c, start, len) ==
    ~((STORAGE_AREA_SIZE(c) < len) \/ ((STORAGE_AREA_SIZE(c) - len) < start))

\* The device.  A device with full overwrite stores what is written; any
\* other device can only move bits in the direction of a program operation
\* (nor flash: 1 -> 0), so that programming an erased byte stores the byte.
ProgByte(c, old, new) ==
    IF STORAGE_AREA_FOVRWRITE(c) THEN new ELSE And(old, new)

DevOp(st, entry, newmem) ==
    IF st.fuel = 0
    THEN [st EXCEPT !.rc = "EIO", !.cut = TRUE]
    ELSE [st EXCEPT !.mem = newmem,
                    !.log = Append(@, entry),
                    !.fuel = IF @ > 0 THEN @ - 1 ELSE @,
                    !.rc = "0"]

\* flash_write fails: the write touches a write block of st.badwr, the
\* write blocks the device cannot program during this call
flash_write_fails(st, c, start, len) ==
    /\ st.badwr # {}
    /\ \E i \in start..(start + len - 1) : (i \div c.write_size) \in st.badwr

flash_write(st, c, start, data) ==
    IF flash_write_fails(st, c, start, Len(data)) THEN R(st, "EIO")
    ELSE DevOp(st, [op |-> "write", off |-> start, len |-> Len(data)],
               [i \in DOMAIN st.mem |->
                   IF (start <= i) /\ (i < start + Len(data))
                   THEN ProgByte(c, st.mem[i], data[i - start + 1])
                   ELSE st.mem[i]])

flash_erase(st, c, start, len) ==
    DevOp(st, [op |-> "erase", off |-> start, len |-> len],
          [i \in DOMAIN st.mem |->
              IF (start <= i) /\ (i < start + len)
              THEN STORAGE_AREA_ERASEVALUE(c)
              ELSE st.mem[i]])

\* sa_flash_write: with auto erase and without full overwrite each erase
\* block is erased when the write is at its first byte.  The loop of the
\* source advances data and len, not start.
RECURSIVE sa_flash_write_autoerase(_, _, _, _)
sa_flash_write_autoerase(st, c, start, data) ==
    IF data = <<>> THEN R(st, "0")
    ELSE LET esz == c.erase_size
             wrlen == SAS_MIN(esz - (start % esz), Len(data))
         IN  CHOOSE res \in
                 {IF ~Ok(s2) THEN s2
                  ELSE sa_flash_write_autoerase(s2, c, start, Drop(data, wrlen)) :
                  s2 \in {IF ~Ok(s1) THEN s1
                          ELSE flash_write(s1, c, start, Take(data, wrlen)) :
                          s1 \in {IF (start % esz) = 0
                                  THEN flash_erase(st, c, start, esz)
                                  ELSE R(st, "0")}}} : TRUE

sa_flash_write(st, c, start, data) ==
    IF (~STORAGE_AREA_AUTOERASE(c)) \/ STORAGE_AREA_FOVRWRITE(c)
    THEN flash_write(st, c, start, data)
    ELSE sa_flash_write_autoerase(st, c, start, data)

\* a direct write that leaves the last whole write block of the span to
\* the buffer
writev_wrlen_less(blen, align) == SAS_ALIGNDOWN(blen, align) - align

\* the length of the direct write of a span: blen & ~(align - 1)
writev_wrlen(blen, align) == SAS_ALIGNDOWN(blen, align)

\* The write block buffering of the adapters (sa_flash_writev, and the same
\* loop in sa_eeprom_writev, sa_ram_prog, storage_area_progblocks): buf holds
\* the bpos = Len(buf) bytes of a partial write block.
RECURSIVE sa_flash_writev(_, _, _, _, _)
sa_flash_writev(st, c, start, iovec, buf) ==
    IF iovec = <<>> THEN R(st, "0")
    ELSE LET align == c.write_size
             data8 == Head(iovec)
             \* cplen bytes of the span are copied behind a partial buffer
             cplen == IF buf # <<>> THEN SAS_MIN(Len(data8), align - Len(buf))
                                    ELSE 0
             buf1 == buf \o Take(data8, cplen)
             d1 == Drop(data8, cplen)
             \* a buffer that is full is written
             flush == (buf # <<>>) /\ (Len(buf1) = align)
             start1 == IF flush THEN start + align ELSE start
             buf2 == IF flush THEN <<>> ELSE buf1
             \* the write blocks of the span are written from the span
             wrlen == IF Len(d1) >= align THEN writev_wrlen(Len(d1), align)
                                          ELSE 0
             \* what is left of the span, d2, goes to the buffer
             d2 == Drop(d1, wrlen)
         IN  CHOOSE res \in
                 {IF ~Ok(s2) THEN s2
                  ELSE sa_flash_writev(s2, c, start1 + wrlen, Tail(iovec),
                                       IF Len(d2) > 0 THEN d2 ELSE buf2) :
                  s2 \in {IF (~Ok(s1)) \/ ~(wrlen > 0) THEN s1
                          ELSE sa_flash_write(s1, c, start1, Take(d1, wrlen)) :
                          s1 \in {IF flush
                                  THEN sa_flash_write(st, c, start, buf1)
                                  ELSE R(st, "0")}}} : TRUE

\* bpos of sa_flash_writev after its loop over the spans of iovec: the number
\* of bytes that are in buf and are not written
RECURSIVE sa_flash_writev_bpos(_, _, _)
sa_flash_writev_bpos(c, iovec, bpos) ==
    IF iovec = <<>> THEN bpos
    ELSE LET align == c.write_size
             cplen == IF bpos # 0 THEN SAS_MIN(Len(Head(iovec)), align - bpos)
                                  ELSE 0
             bpos1 == IF bpos + cplen = align THEN 0 ELSE bpos + cplen
             blen1 == Len(Head(iovec)) - cplen
             blen2 == IF blen1 >= align THEN blen1 - writev_wrlen(blen1, align)
                                        ELSE blen1
         IN  sa_flash_writev_bpos(c, Tail(iovec),
                                  IF blen2 > 0 THEN blen2 ELSE bpos1)

store_iovec_size(iovec) == Len(Concat(iovec))

\* storage_area_writev: the checks of the storage area, then the adapter.
storage_area_writev(st, c, start, iovec) ==
    LET len == store_iovec_size(iovec)
    IN  IF (~storage_area_range_valid(c, start, len)) \/
           ((len % c.write_size) # 0)
        THEN R(st, "EINVAL")
        ELSE IF STORAGE_AREA_READONLY(c) THEN R(st, "EROFS")
        ELSE sa_flash_writev(st, c, start, iovec, <<>>)

\* flash_read fails: the read touches an erase block of st.badrd, the
\* blocks the device cannot read during this call
flash_read_fails(st, c, start, len) ==
    /\ st.badrd # {}
    /\ \E i \in start..(start + len - 1) : (i \div c.erase_size) \in st.badrd

\* storage_area_readv of len bytes: [rc, data]
storage_area_readv(st, c, start, len) ==
    IF ~storage_area_range_valid(c, start, len)
    THEN [rc |-> "EINVAL", data |-> <<>>]
    ELSE IF flash_read_fails(st, c, start, len)
    THEN [rc |-> "EIO", data |-> <<>>]
    ELSE [rc |-> "0", data |-> [i \in 1..len |-> st.mem[start + i - 1]]]

\* sa_flash_erase: one erase of bcnt blocks
sa_flash_erase(st, c, sblk, bcnt) ==
    flash_erase(st, c, sblk * c.erase_size, bcnt * c.erase_size)

\* storage_area_erase: refused out of range or on a read-only area.
storage_area_erase(st, c, sblk, bcnt) ==
    IF ~storage_area_range_valid(c, sblk * c.erase_size, bcnt * c.erase_size)
    THEN R(st, "EINVAL")
    ELSE IF STORAGE_AREA_READONLY(c) THEN R(st, "EROFS")
    ELSE sa_flash_erase(st, c, sblk, bcnt)

(***************************************************************************)
(* Record store.  The configuration c adds sector_size, sector_cnt,        *)
(* spare_sectors, cookie (sector_cookie, its length sector_cookie_size),   *)
(* crc_skip and api ("ro", "scb", "pcb").  A record is                     *)
(* [store, sector, loc, size]; store = FALSE is the NULL store of a        *)
(* cursor that has not started.                                            *)
(***************************************************************************)
RECURSIVE sector_advance(_, _, _)
sector_advance(c, sector, cnt) ==
    IF cnt = 0 THEN sector
    ELSE sector_advance(c, IF sector + 1 = c.sector_cnt THEN 0 ELSE sector + 1,
                        cnt - 1)

RECURSIVE sector_reverse(_, _, _)
sector_reverse(c, sector, cnt) ==
    IF cnt = 0 THEN sector
    ELSE sector_reverse(c, (IF sector = 0 THEN c.sector_cnt ELSE sector) - 1,
                        cnt - 1)

BufSize(c) == SAS_MAX(SAS_MINBUFSIZE, c.write_size)

\* the read loop of store_record_valid: [ok, crc, rdoff]
RECURSIVE record_crc(_, _, _, _, _)
record_crc(st, c, rdoff, rdlen, crc) ==
    IF rdlen = 0 THEN [ok |-> TRUE, crc |-> crc, rdoff |-> rdoff]
    ELSE LET len == SAS_MIN(BufSize(c), rdlen)
         IN  CHOOSE res \in
                 {IF rd.rc # "0"
                  THEN [ok |-> FALSE, crc |-> crc, rdoff |-> rdoff]
                  ELSE record_crc(st, c, rdoff + len, rdlen - len,
                                  crc32_ieee_update(crc, rd.data)) :
                  rd \in {storage_area_readv(st, c, rdoff, len)}} : TRUE

\* the comparison of store_record_valid
crc_match(crc, stored) == crc = stored

store_record_valid(st, c, record) ==
    LET recpos == record.sector * c.sector_size + record.loc + SAS_HDRSIZE +
                  c.crc_skip
    IN  \E body \in {record_crc(st, c, recpos,
                                USub(record.size, c.crc_skip), SAS_CRCINIT)} :
            /\ body.ok
            /\ \E rd \in {storage_area_readv(st, c, body.rdoff, SAS_CRCSIZE)} :
                   /\ rd.rc = "0"
                   /\ crc_match(body.crc, sys_get_le32(rd.data))

\* the size check of store_record_next_in_sector
scan_size_ok(c, rsize, rdpos) ==
    (rsize > 0) /\
    (rsize < USub(USub(USub(c.sector_size, rdpos), SAS_CRCSIZE), SAS_HDRSIZE))

\* the step of store_record_next_in_sector over an invalid frame
scan_step(c, loc) == loc + c.write_size

\* the bytes that the crc check of store_record_valid reads for record: the
\* payload chunks that were read and, after the last of them, the crc
crc_reads(st, c, record) ==
    LET recpos == record.sector * c.sector_size + record.loc + SAS_HDRSIZE +
                  c.crc_skip
    IN  CHOOSE res \in
            {[kind |-> "crc", sector |-> record.sector, off |-> recpos,
              len |-> (body.rdoff - recpos) +
                      (IF body.ok /\
                          (storage_area_readv(st, c, body.rdoff,
                                              SAS_CRCSIZE).rc = "0")
                       THEN SAS_CRCSIZE ELSE 0)] :
             body \in {record_crc(st, c, recpos,
                                  USub(record.size, c.crc_skip),
                                  SAS_CRCINIT)}} : TRUE

\* the loop of store_record_next_in_sector with the reads it makes:
\* [rc, record, reads], reads the header reads and the crc checks in order
RECURSIVE next_in_sector_trace(_, _, _, _, _, _, _)
next_in_sector_trace(st, c, record, wrapcheck, recover, crc_ok, reads) ==
    LET secpos == record.sector * c.sector_size
        rdpos == IF record.size # 0
                 THEN SAS_ALIGNUP(record.loc + SAS_HDRSIZE + record.size +
                                  SAS_CRCSIZE, c.write_size)
                 ELSE record.loc
    IN  IF ((st.sector = record.sector) /\ (st.loc <= rdpos)) \/
           (rdpos = c.sector_size)
        THEN [rc |-> "ENOENT",
              record |-> [record EXCEPT !.loc = rdpos, !.size = 0],
              reads |-> reads]
        ELSE CHOOSE res \in
                 {IF rd.rc # "0"
                  THEN [rc |-> rd.rc, record |-> record, reads |-> reads]
                  ELSE LET buf == rd.data
                           rsize == sys_get_le16(<<buf[3], buf[4]>>)
                           size_ok == scan_size_ok(c, rsize, rdpos)
                           \* the crc is evaluated when a frame was skipped
                           \* before
                           check == size_ok /\ ~crc_ok
                           rec1 == IF check
                                   THEN [record EXCEPT !.loc = rdpos,
                                                       !.size = rsize]
                                   ELSE record
                           hdr == [kind |-> "hdr", sector |-> record.sector,
                                   off |-> secpos + rdpos,
                                   len |-> SAS_HDRSIZE]
                           reads1 == IF check
                                     THEN reads \o
                                          <<hdr, crc_reads(st, c, rec1)>>
                                     ELSE Append(reads, hdr)
                       IN  IF (buf[1] = SAS_MAGIC) /\
                              ((IF ~wrapcheck THEN st.wrapcnt
                                ELSE IF record.sector > st.sector
                                THEN U8(buf[2] + 1)
                                ELSE buf[2]) = st.wrapcnt) /\
                              size_ok /\
                              (IF check THEN store_record_valid(st, c, rec1)
                                        ELSE crc_ok)
                           THEN [rc |-> "0",
                                 record |-> [record EXCEPT !.loc = rdpos,
                                                           !.size = rsize],
                                 reads |-> reads1]
                           ELSE IF ~recover
                           THEN [rc |-> "ENOENT", record |-> rec1,
                                 reads |-> reads1]
                           ELSE next_in_sector_trace(st, c,
                                    [rec1 EXCEPT
                                        !.loc = scan_step(c, rec1.loc),
                                        !.size = 0],
                                    wrapcheck, recover, FALSE, reads1) :
                  rd \in {storage_area_readv(st, c, secpos + rdpos,
                                             SAS_HDRSIZE)}} : TRUE

\* the loop of store_record_next_in_sector: [rc, record]
RECURSIVE next_in_sector_loop(_, _, _, _, _, _)
next_in_sector_loop(st, c, record, wrapcheck, recover, crc_ok) ==
    LET secpos == record.sector * c.sector_size
        rdpos == IF record.size # 0
                 THEN SAS_ALIGNUP(record.loc + SAS_HDRSIZE + record.size +
                                  SAS_CRCSIZE, c.write_size)
                 ELSE record.loc
    IN  IF ((st.sector = record.sector) /\ (st.loc <= rdpos)) \/
           (rdpos = c.sector_size)
        THEN [rc |-> "ENOENT",
              record |-> [record EXCEPT !.loc = rdpos, !.size = 0]]
        ELSE CHOOSE res \in
                 {IF rd.rc # "0" THEN [rc |-> rd.rc, record |-> record]
                  ELSE LET buf == rd.data
                           rsize == sys_get_le16(<<buf[3], buf[4]>>)
                           size_ok == scan_size_ok(c, rsize, rdpos)
                           \* the crc is evaluated when a frame was skipped
                           \* before
                           check == size_ok /\ ~crc_ok
                           rec1 == IF check
                                   THEN [record EXCEPT !.loc = rdpos,
                                                       !.size = rsize]
                                   ELSE record
                       IN  IF (buf[1] = SAS_MAGIC) /\
                              ((IF ~wrapcheck THEN st.wrapcnt
                                ELSE IF record.sector > st.sector
                                THEN U8(buf[2] + 1)
                                ELSE buf[2]) = st.wrapcnt) /\
                              size_ok /\
                              (IF check THEN store_record_valid(st, c, rec1)
                                        ELSE crc_ok)
                           THEN [rc |-> "0",
                                 record |-> [record EXCEPT !.loc = rdpos,
                                                           !.size = rsize]]
                           ELSE IF ~recover
                           THEN [rc |-> "ENOENT", record |-> rec1]
                           ELSE next_in_sector_loop(st, c,
                                    [rec1 EXCEPT
                                        !.loc = scan_step(c, rec1.loc),
                                        !.size = 0],
                                    wrapcheck, recover, FALSE) :
                  rd \in {storage_area_readv(st, c, secpos + rdpos,
                                             SAS_HDRSIZE)}} : TRUE

store_record_next_in_sector(st, c, record, wrapcheck, recover) ==
    LET rec0 == IF (record.loc = 0) /\ (c.cookie # <<>>)
                THEN [record EXCEPT
                         !.loc = SAS_ALIGNUP(Len(c.cookie), c.write_size)]
                ELSE record
    IN  next_in_sector_loop(st, c, rec0, wrapcheck, recover, TRUE)

store_add_cookie(st, c) ==
    IF (st.loc # 0) \/ (c.cookie = <<>>) THEN R(st, "0")
    ELSE LET wroff == st.sector * c.sector_size
             cksize == Len(c.cookie)
             fill == Fill(SAS_ALIGNUP(cksize, c.write_size) - cksize,
                          SAS_FILLVALUE)
         IN  CHOOSE res \in
                 {IF ~Ok(s1) THEN s1
                  ELSE [s1 EXCEPT !.loc = cksize + Len(fill)] :
                  s1 \in {storage_area_writev(st, c, wroff,
                                              <<c.cookie, fill>>)}} : TRUE

RECURSIVE store_fill_sector(_, _)
\* store_get_sector_cookie: [rc, data]
store_get_sector_cookie(st, c, sector, cksz) ==
    storage_area_readv(st, c, sector * c.sector_size,
                       SAS_MIN(cksz, Len(c.cookie)))

store_fill_sector(st, c) ==
    IF ~(st.loc < c.sector_size) THEN R(st, "0")
    ELSE LET wroff == st.sector * c.sector_size + st.loc
             len == SAS_MIN(BufSize(c), c.sector_size - st.loc)
         IN  CHOOSE res \in
                 {IF ~Ok(s1) THEN s1
                  ELSE store_fill_sector([s1 EXCEPT !.loc = @ + len], c) :
                  s1 \in {storage_area_writev(st, c, wroff,
                              <<Fill(len, SAS_FILLVALUE)>>)}} : TRUE

\* an eager erase: the blocks of the sector ahead of the new sector
store_erase_block_ahead(st, c) ==
    LET ahead == sector_advance(c, st.sector, 1)
    IN  storage_area_erase(st, c, (ahead * c.sector_size) \div c.erase_size,
                           SAS_MAX(1, c.sector_size \div c.erase_size))

store_erase_block(st, c) ==
    IF ((st.sector * c.sector_size) % c.erase_size) # 0 THEN R(st, "0")
    ELSE storage_area_erase(st, c, (st.sector * c.sector_size) \div c.erase_size,
                            SAS_MAX(1, c.sector_size \div c.erase_size))

\* a wrap counter that is wider than the uint8_t of the store
advance_wrapcnt_wide(sector, wrapcnt) ==
    IF sector = 0 THEN wrapcnt + 1 ELSE wrapcnt

\* the wrap counter after the sector advanced to sector
advance_wrapcnt(sector, wrapcnt) == IF sector = 0 THEN U8(wrapcnt + 1) ELSE wrapcnt

store_advance_scb(st, c) ==
    CHOOSE res \in
        {IF ~Ok(s3) THEN s3 ELSE store_add_cookie(s3, c) :
         s3 \in {IF ~Ok(s1) THEN s1
                 ELSE LET sec == sector_advance(c, s1.sector, 1)
                          s2 == [s1 EXCEPT !.sector = sec,
                                           !.wrapcnt = advance_wrapcnt(sec, @),
                                           !.loc = 0]
                      IN  IF (~STORAGE_AREA_FOVRWRITE(c)) /\
                             (~STORAGE_AREA_AUTOERASE(c))
                          THEN store_erase_block(s2, c)
                          ELSE R(s2, "0") :
                 s1 \in {IF STORAGE_AREA_FOVRWRITE(c)
                         THEN store_fill_sector(st, c)
                         ELSE R(st, "0")}}} : TRUE

(***************************************************************************)
(* Reading records.                                                        *)
(***************************************************************************)
\* storage_area_record_readv of len bytes at start: [rc, data]
storage_area_record_readv(st, c, record, start, len) ==
    IF (~record.store) \/ (record.loc > c.sector_size) \/
       (record.size > c.sector_size) \/ (record.size < (start + len))
    THEN [rc |-> "EINVAL", data |-> <<>>]
    ELSE storage_area_readv(st, c,
             record.sector * c.sector_size + record.loc + start + SAS_HDRSIZE,
             len)

\* the payload of a record, read with storage_area_record_read
Payload(st, c, record) ==
    storage_area_record_readv(st, c, record, 0, record.size).data

(***************************************************************************)
(* The compact callbacks.  cb.move is "NULL" (no callback) or "keys": the  *)
(* record is kept when its first payload byte, its key, is in cb.keep.     *)
(* cb.move_cb is "NULL" or "log": the call move_cb(record, dest) is        *)
(* entered in the log of the call, with the offset of the frame of         *)
(* record, its size and the offset of the frame of dest.                   *)
(***************************************************************************)
NoCb == [move |-> "NULL", keep |-> {}, move_cb |-> "NULL"]

\* a move that keeps every record it can read
cb_move_all(st, c, cb, record) ==
    \E rd \in {storage_area_record_readv(st, c, record, 0, 1)} : rd.rc = "0"

cb_move(st, c, cb, record) ==
    \E rd \in {storage_area_record_readv(st, c, record, 0, 1)} :
        (rd.rc = "0") /\ (rd.data[1] \in cb.keep)

\* the copy loop of store_move_record
RECURSIVE move_copy(_, _, _, _, _, _)
move_copy(st, c, rdpos, wrpos, alsize, start) ==
    IF ~(start < alsize) THEN R(st, "0")
    ELSE LET len == SAS_MIN(BufSize(c), alsize - start)
         IN  CHOOSE res \in
                 {IF ~Ok(s1) THEN s1
                  ELSE move_copy([s1 EXCEPT !.loc = @ + len], c, rdpos, wrpos,
                                 alsize, start + len) :
                  s1 \in {IF rd.rc # "0" THEN R(st, rd.rc)
                          ELSE storage_area_writev(st, c, wrpos + start,
                                   <<IF start = 0
                                     THEN [rd.data EXCEPT ![2] = st.wrapcnt]
                                     ELSE rd.data>>) :
                          rd \in {storage_area_readv(st, c, rdpos + start,
                                                     len)}}} : TRUE

store_move_record(st, c, record, cb) ==
    IF (cb.move = "NULL") \/ (~cb_move(st, c, cb, record)) THEN R(st, "0")
    ELSE IF ~store_record_valid(st, c, record) THEN R(st, "0")
    ELSE LET rdpos == record.sector * c.sector_size + record.loc
             wrpos == st.sector * c.sector_size + st.loc
             alsize == SAS_ALIGNUP(SAS_HDRSIZE + record.size + SAS_CRCSIZE,
                                   c.write_size)
         IN  IF USub(c.sector_size, alsize) < st.loc THEN R(st, "ENOSPC")
             ELSE CHOOSE res \in
                      {IF Ok(s1) /\ (cb.move_cb # "NULL")
                       THEN [s1 EXCEPT !.log =
                                Append(@, [op |-> "move_cb", off |-> rdpos,
                                           len |-> record.size,
                                           dst |-> wrpos])]
                       ELSE s1 :
                       s1 \in {move_copy(st, c, rdpos, wrpos, alsize, 0)}} :
                      TRUE

\* the retry loop of store_advance_pcb around store_move_record
RECURSIVE pcb_move_retry(_, _, _, _)
pcb_move_retry(st, c, walk, cb) ==
    CHOOSE res \in
        {IF Ok(s1) \/ (s1.rc # "ENOSPC") THEN s1
         ELSE CHOOSE res2 \in
                  {IF ~Ok(s2) THEN s2 ELSE pcb_move_retry(s2, c, walk, cb) :
                   s2 \in {store_advance_scb(s1, c)}} : TRUE :
         s1 \in {store_move_record(st, c, walk, cb)}} : TRUE

\* the walk of one sector in store_advance_pcb
RECURSIVE pcb_walk_sector(_, _, _, _)
pcb_walk_sector(st, c, walk, cb) ==
    CHOOSE res \in
        {IF nx.rc # "0" THEN st
         ELSE CHOOSE res2 \in
                  {IF ~Ok(s1) THEN s1
                   ELSE pcb_walk_sector(s1, c, nx.record, cb) :
                   s1 \in {pcb_move_retry(st, c, nx.record, cb)}} : TRUE :
         nx \in {store_record_next_in_sector(st, c, walk, TRUE, TRUE)}} : TRUE

\* the loop of store_advance_pcb over scnt sectors from sector wsector
RECURSIVE pcb_walk(_, _, _, _, _)
pcb_walk(st, c, wsector, scnt, cb) ==
    IF scnt = 0 THEN st
    ELSE pcb_walk(pcb_walk_sector(st, c,
                      [store |-> TRUE, sector |-> wsector, loc |-> 0, size |-> 0],
                      cb),
                  c, sector_advance(c, wsector, 1), scnt - 1, cb)

\* a walk that starts one sector too far
pcb_walk_start_next(c, sector) ==
    sector_advance(c, sector, c.spare_sectors + 1)

\* the first sector of the walk of store_advance_pcb
pcb_walk_start(c, sector) == sector_advance(c, sector, c.spare_sectors)

store_advance_pcb(st, c, cb) ==
    CHOOSE res \in
        {IF (cb.move = "NULL") \/ (~Ok(s1)) THEN s1
         ELSE IF ((s1.sector * c.sector_size) % c.erase_size) # 0 THEN s1
         ELSE pcb_walk(s1, c, pcb_walk_start(c, s1.sector),
                       SAS_MAX(1, c.erase_size \div c.sector_size), cb) :
         s1 \in {store_advance_scb(st, c)}} : TRUE

\* store->api->advance
api_advance(st, c, cb) ==
    IF c.api = "pcb" THEN store_advance_pcb(st, c, cb)
                     ELSE store_advance_scb(st, c)

(***************************************************************************)
(* Recovery of an interrupted compaction (persistent circular buffer).     *)
(***************************************************************************)
store_reverse(st, c) ==
    LET sec == sector_reverse(c, st.sector, 1)
    IN  [st EXCEPT !.sector = sec,
                   !.loc = c.sector_size,
                   !.wrapcnt = IF sec = (c.sector_cnt - 1) THEN U8(@ - 1)
                                                           ELSE @]

\* the roll back at the start of each loop of store_recover: [st, rscnt]
RECURSIVE recover_reverse(_, _, _)
recover_reverse(st, c, rscnt) ==
    IF ((st.sector * c.sector_size) % c.erase_size) # 0
    THEN recover_reverse(store_reverse(st, c), c, rscnt + 1)
    ELSE [st |-> store_reverse(st, c), rscnt |-> rscnt + 1]

\* records of the sector after walk that count in store_recover: with
\* recovery those that move keeps and that are valid (mrcnt), without
\* recovery those that are valid (vrcnt)
RECURSIVE recover_count_sector(_, _, _, _, _)
recover_count_sector(st, c, walk, cb, moved) ==
    CHOOSE res \in
        {IF nx.rc # "0" THEN 0
         ELSE (IF (IF moved
                   THEN cb_move(st, c, cb, nx.record) /\
                        store_record_valid(st, c, nx.record)
                   ELSE store_record_valid(st, c, nx.record))
               THEN 1 ELSE 0) +
              recover_count_sector(st, c, nx.record, cb, moved) :
         nx \in {store_record_next_in_sector(st, c, walk, TRUE, moved)}} : TRUE

RECURSIVE recover_count(_, _, _, _, _, _)
recover_count(st, c, wsector, scnt, cb, moved) ==
    IF scnt = 0 THEN 0
    ELSE recover_count_sector(st, c,
             [store |-> TRUE, sector |-> wsector, loc |-> 0, size |-> 0],
             cb, moved) +
         recover_count(st, c, sector_advance(c, wsector, 1), scnt - 1, cb, moved)

RECURSIVE recover_block_start(_, _)
recover_block_start(c, sector) ==
    IF ((sector * c.sector_size) % c.erase_size) # 0
    THEN recover_block_start(c, sector_reverse(c, sector, 1))
    ELSE sector

\* the decision of store_recover: the compaction is complete
recover_complete(vrcnt, mrcnt) == vrcnt >= mrcnt

store_recover(st, c, cb) ==
    IF cb.move = "NULL" THEN R(st, "0")
    ELSE CHOOSE res \in
             {CHOOSE res2 \in
                  {IF mrcnt = 0 THEN R(st, "0")
                   ELSE IF recover_complete(
                               recover_count(st, c,
                                   recover_block_start(c, st.sector),
                                   back.rscnt, cb, FALSE),
                               mrcnt)
                   THEN R(st, "0")
                   ELSE store_advance_pcb(back.st, c, cb) :
                   mrcnt \in {recover_count(back.st, c,
                                  sector_advance(c, back.st.sector,
                                                 c.spare_sectors + 1),
                                  c.erase_size \div c.sector_size, cb,
                                  TRUE)}} : TRUE :
              back \in {recover_reverse(st, c, 0)}} : TRUE

(***************************************************************************)
(* Append.                                                                 *)
(***************************************************************************)
\* a store_writev that leaves the crc at its initial value
writev_crc_none(iovec, crc_skip, crc) == crc

\* the crc loop of store_writev over the spans, crc_skip bytes skipped
RECURSIVE writev_crc(_, _, _)
writev_crc(iovec, crc_skip, crc) ==
    IF iovec = <<>> THEN crc
    ELSE IF crc_skip >= Len(Head(iovec))
    THEN writev_crc(Tail(iovec), crc_skip - Len(Head(iovec)), crc)
    ELSE writev_crc(Tail(iovec), 0,
                    crc32_ieee_update(crc, Drop(Head(iovec), crc_skip)))

\* the space check of store_writev: the frame of len bytes does not fit
writev_nospace(c, len, loc) == USub(c.sector_size, len) < loc

\* sa_off_t wroff = secpos + data->loc
writev_wroff(st, c) == (st.sector * c.sector_size + st.loc) % SizeMod

\* The retries that storage_area_writev refuses for their range change
\* nothing but data->loc.  From loc the loop runs through them, one write
\* block at a time, up to the first loc that has no space (after k1 retries)
\* or whose wroff has wrapped around to the start of the area (after k2
\* retries): the result is the loc there and whether the loop ends there
\* with -ENOSPC.  A loc that has no space or a wroff in range is the result
\* itself.
writev_skip(c, secpos, loc, wrlen, len) ==
    LET W == c.write_size
        wroff == (secpos + loc) % SizeMod
        T == USub(c.sector_size, len)
        k1 == ((T - loc) \div W) + 1
        k2 == ((SizeMod - wroff) + (W - 1)) \div W
    IN  IF writev_nospace(c, len, loc) \/
           storage_area_range_valid(c, wroff, wrlen)
        THEN [loc |-> loc, nospace |-> writev_nospace(c, len, loc)]
        ELSE IF (loc + k1 * W < SizeMod) /\ (k1 <= k2)
        THEN [loc |-> loc + k1 * W, nospace |-> TRUE]
        ELSE [loc |-> (loc + k2 * W) % SizeMod, nospace |-> FALSE]

\* the retry loop of store_writev.  seen has the states in which the loop
\* came around to the start of the area: in a state of seen the loop repeats
\* itself and the call does not return ("HANG").
RECURSIVE writev_retry(_, _, _, _, _)
writev_retry(st, c, wr, len, seen) ==
    CHOOSE res \in
        {IF Ok(s1)
         THEN [s1 EXCEPT !.loc = (@ + SAS_ALIGNUP(len, c.write_size)) % SizeMod]
         ELSE LET loc1 == (s1.loc + c.write_size) % SizeMod
                  nx == writev_skip(c, st.sector * c.sector_size, loc1,
                                    store_iovec_size(wr), len)
                  s2 == [s1 EXCEPT !.loc = nx.loc]
                  at == <<s2.mem, s2.loc, s2.fuel>>
              IN  IF nx.nospace THEN R(s2, "ENOSPC")
                  ELSE IF nx.loc = loc1
                  THEN writev_retry(s2, c, wr, len, seen)
                  ELSE IF at \in seen THEN R(s2, "HANG")
                  ELSE writev_retry(s2, c, wr, len, seen \cup {at}) :
         s1 \in {storage_area_writev(st, c, writev_wroff(st, c), wr)}} : TRUE

store_writev(st, c, iovec) ==
    LET len == SAS_HDRSIZE + store_iovec_size(iovec) + SAS_CRCSIZE
        hbuf == <<SAS_MAGIC, st.wrapcnt>> \o
                sys_put_le16(U16(store_iovec_size(iovec)))
        cbuf == sys_put_le32(writev_crc(iovec, c.crc_skip, SAS_CRCINIT)) \o
                Fill(SAS_ALIGNUP(len, c.write_size) - len, SAS_FILLVALUE)
    IN  IF writev_nospace(c, len, st.loc) THEN R(st, "ENOSPC")
        ELSE writev_retry(st, c, <<hbuf>> \o iovec \o <<cbuf>>, len, {})

(***************************************************************************)
(* Mount.                                                                  *)
(***************************************************************************)
\* the loop of store_mount_basic over the sectors: the record carries its
\* size from one sector to the next
RECURSIVE mount_find_sector(_, _, _, _)
mount_find_sector(st, c, record, i) ==
    IF ~(i < c.sector_cnt) THEN st
    ELSE CHOOSE res \in
             {IF nx.rc # "0" THEN mount_find_sector(st, c, nx.record, i + 1)
              ELSE CHOOSE res2 \in
                       {IF rd.rc # "0"
                        THEN mount_find_sector(st, c, nx.record, i + 1)
                        ELSE LET rd_wrapcnt == rd.data[1]
                                 s1 == IF st.sector > i
                                       THEN [st EXCEPT !.wrapcnt = rd_wrapcnt]
                                       ELSE st
                             IN  IF rd_wrapcnt # s1.wrapcnt THEN s1
                                 ELSE mount_find_sector(
                                          [s1 EXCEPT !.sector = i], c,
                                          nx.record, i + 1) :
                        rd \in {storage_area_readv(st, c,
                                    i * c.sector_size + nx.record.loc + 1,
                                    1)}} : TRUE :
              nx \in {store_record_next_in_sector(st, c,
                          [record EXCEPT !.sector = i, !.loc = 0],
                          FALSE, FALSE)}} : TRUE

\* the scan of the write sector in store_mount_basic: the end of the last
\* record found
RECURSIVE mount_find_loc(_, _, _, _)
mount_find_loc(st, c, record, loc) ==
    CHOOSE res \in
        {IF nx.rc # "0" THEN loc
         ELSE mount_find_loc(st, c, nx.record,
                  nx.record.loc +
                  SAS_ALIGNUP(SAS_HDRSIZE + nx.record.size + SAS_CRCSIZE,
                              c.write_size)) :
         nx \in {store_record_next_in_sector(st, c, record, TRUE, TRUE)}} : TRUE

\* the checks of the configuration in store_mount_basic
mount_config_ok(c) ==
    /\ And(c.sector_size, c.write_size - 1) = 0
    /\ ~((And(c.erase_size, c.sector_size - 1) # 0) /\
         (And(c.sector_size, c.erase_size - 1) # 0))
    /\ ~(STORAGE_AREA_SIZE(c) < c.sector_size * c.sector_cnt)

\* the scan of store_mount_basic: the write sector, then the write location
mount_scan(st, c) ==
    CHOOSE res \in
        {IF s1.sector = c.sector_cnt THEN R(s1, "0")
         ELSE [s1 EXCEPT !.loc = mount_find_loc(s1, c,
                                     [store |-> TRUE,
                                      sector |-> s1.sector,
                                      loc |-> 0, size |-> 0], 0),
                         !.ready = TRUE, !.rc = "0"] :
         s1 \in {mount_find_sector(
                     [st EXCEPT !.sector = c.sector_cnt,
                                !.loc = c.sector_size], c,
                     [store |-> TRUE, sector |-> 0, loc |-> 0,
                      size |-> 0],
                     0)}} : TRUE

\* a store_mount_basic without the check of data->ready
store_mount_basic_again(st, c) ==
    IF ~mount_config_ok(c) THEN R(st, "EINVAL") ELSE mount_scan(st, c)

store_mount_basic(st, c) ==
    IF st.ready THEN R(st, "EALREADY")
    ELSE IF ~mount_config_ok(c) THEN R(st, "EINVAL")
    ELSE mount_scan(st, c)

store_mount_scb(st, c) ==
    CHOOSE res \in
        {IF (~Ok(s1)) \/ s1.ready THEN s1
         ELSE CHOOSE res2 \in
                  {IF Ok(s2) THEN [s2 EXCEPT !.ready = TRUE] ELSE s2 :
                   s2 \in {store_advance_scb([s1 EXCEPT !.sector = @ - 1],
                                             c)}} : TRUE :
         s1 \in {store_mount_basic(st, c)}} : TRUE

\* a store_mount_pcb that leaves data->ready set during the recovery
store_mount_pcb_ready(st, c, cb) ==
    IF (cb.move # "NULL") /\
       ((c.spare_sectors * c.sector_size) < c.erase_size)
    THEN R(st, "EINVAL")
    ELSE CHOOSE res \in
             {IF Ok(s2) THEN [s2 EXCEPT !.ready = TRUE] ELSE s2 :
              s2 \in {IF ~Ok(s1) THEN s1
                      ELSE IF s1.ready
                      THEN store_recover(s1, c, cb)
                      ELSE store_advance_pcb([s1 EXCEPT !.sector = @ - 1], c,
                                             NoCb) :
                      s1 \in {store_mount_basic(st, c)}}} : TRUE

store_mount_pcb(st, c, cb) ==
    IF (cb.move # "NULL") /\
       ((c.spare_sectors * c.sector_size) < c.erase_size)
    THEN R(st, "EINVAL")
    ELSE CHOOSE res \in
             {IF Ok(s2) THEN [s2 EXCEPT !.ready = TRUE] ELSE s2 :
              s2 \in {IF ~Ok(s1) THEN s1
                      ELSE IF s1.ready
                      THEN store_recover([s1 EXCEPT !.ready = FALSE], c, cb)
                      ELSE store_advance_pcb([s1 EXCEPT !.sector = @ - 1], c,
                                             NoCb) :
                      s1 \in {store_mount_basic(st, c)}}} : TRUE

storage_area_store_mount(st, c, cb) ==
    IF c.api = "ro" THEN store_mount_basic(st, c)
    ELSE IF c.api = "scb" THEN store_mount_scb(st, c)
    ELSE store_mount_pcb(st, c, cb)

storage_area_store_unmount(st) == [st EXCEPT !.ready = FALSE, !.rc = "0"]

(***************************************************************************)
(* The public operations on a mounted store.                               *)
(***************************************************************************)
\* a storage_area_store_writev without the check of store->api->writev
storage_area_store_writev_any(st, c, iovec) ==
    IF ~st.ready THEN R(st, "EINVAL")
    ELSE store_writev(st, c, iovec)

storage_area_store_writev(st, c, iovec) ==
    IF c.api = "ro" THEN R(st, "ENOTSUP")
    ELSE IF ~st.ready THEN R(st, "EINVAL")
    ELSE store_writev(st, c, iovec)

storage_area_store_write(st, c, data) ==
    storage_area_store_writev(st, c, <<data>>)

storage_area_store_advance(st, c) ==
    IF c.api = "ro" THEN R(st, "ENOTSUP")
    ELSE IF ~st.ready THEN R(st, "EINVAL")
    ELSE api_advance(st, c, NoCb)

\* a storage_area_store_compact without the check of store_ready
storage_area_store_compact_any(st, c, cb) ==
    IF c.api = "ro" THEN R(st, "ENOTSUP") ELSE api_advance(st, c, cb)

storage_area_store_compact(st, c, cb) ==
    IF c.api = "ro" THEN R(st, "ENOTSUP")
    ELSE IF ~st.ready THEN R(st, "EINVAL")
    ELSE api_advance(st, c, cb)

\* a storage_area_store_wipe without the check of data->ready
storage_area_store_wipe_mounted(st, c) ==
    IF c.api = "ro" THEN R(st, "ENOTSUP")
    ELSE storage_area_erase(st, c, 0, c.erase_blocks)

storage_area_store_wipe(st, c) ==
    IF c.api = "ro" THEN R(st, "ENOTSUP")
    ELSE IF st.ready THEN R(st, "EINVAL")
    ELSE storage_area_erase(st, c, 0, c.erase_blocks)

\* storage_area_store_get_sector_cookie: [rc, data]; the store of the model
\* is valid, and the call does not look at data->ready
storage_area_store_get_sector_cookie(st, c, sector, cksz) ==
    IF c.cookie = <<>> THEN [rc |-> "EINVAL", data |-> <<>>]
    ELSE store_get_sector_cookie(st, c, sector, cksz)

(***************************************************************************)
(* Cursor.                                                                 *)
(***************************************************************************)
\* a cursor that starts at the sector after the write sector
cursor_start_next(c, sector) == sector_advance(c, sector, 1)

\* the first sector of a cursor that starts
cursor_start(c, sector) == sector_advance(c, sector, c.spare_sectors + 1)

\* the loop of storage_area_record_next with the reads of its scans:
\* [rc, record, reads]
RECURSIVE record_next_trace(_, _, _, _)
record_next_trace(st, c, record, reads) ==
    CHOOSE res \in
        {IF nx.rc # "ENOENT" THEN nx
         ELSE IF nx.record.sector = st.sector THEN nx
         ELSE record_next_trace(st, c,
                  [nx.record EXCEPT !.sector = sector_advance(c, @, 1),
                                    !.loc = 0, !.size = 0], nx.reads) :
         nx \in {LET rec0 == IF (record.loc = 0) /\ (c.cookie # <<>>)
                             THEN [record EXCEPT
                                      !.loc = SAS_ALIGNUP(Len(c.cookie),
                                                          c.write_size)]
                             ELSE record
                 IN  next_in_sector_trace(st, c, rec0, TRUE, TRUE, TRUE,
                                          reads)}} : TRUE

\* the loop of storage_area_record_next: [rc, record]
RECURSIVE record_next_loop(_, _, _)
record_next_loop(st, c, record) ==
    CHOOSE res \in
        {IF nx.rc # "ENOENT" THEN nx
         ELSE IF nx.record.sector = st.sector THEN nx
         ELSE record_next_loop(st, c,
                  [nx.record EXCEPT !.sector = sector_advance(c, @, 1),
                                    !.loc = 0, !.size = 0]) :
         nx \in {store_record_next_in_sector(st, c, record, TRUE, TRUE)}} : TRUE

\* the record a cursor starts from
cursor_record(st, c, record) ==
    IF ~record.store
    THEN [store |-> TRUE, sector |-> cursor_start(c, st.sector),
          loc |-> 0, size |-> 0]
    ELSE record

storage_area_record_next(st, c, record) ==
    record_next_loop(st, c, cursor_record(st, c, record))

storage_area_record_valid(st, c, record) ==
    IF ~st.ready THEN TRUE ELSE store_record_valid(st, c, record)

\* a storage_area_record_update that clears the write block of the start of
\* the payload
update_loop_block(st, c, secpos, rpos, apos, data, len) ==
    storage_area_writev(st, c, secpos + apos, <<Fill(c.write_size, 0)>>)

\* the read-modify-write loop of storage_area_record_update: len bytes are
\* left to write; every block is filled from the start of data
RECURSIVE update_loop(_, _, _, _, _, _, _)
update_loop(st, c, secpos, rpos, apos, data, len) ==
    IF len = 0 THEN R(st, "0")
    ELSE LET align == c.write_size
             modlen == SAS_MIN(len, align - (rpos - apos))
         IN  CHOOSE res \in
                 {IF ~Ok(s1) THEN s1
                  ELSE update_loop(s1, c, secpos, rpos + modlen, apos + align,
                                   data, len - modlen) :
                  s1 \in {IF rd.rc # "0" THEN R(st, rd.rc)
                          ELSE storage_area_writev(st, c, secpos + apos,
                                   <<[i \in 1..align |->
                                         IF (i > rpos - apos) /\
                                            (i <= rpos - apos + modlen)
                                         THEN data[i - (rpos - apos)]
                                         ELSE rd.data[i]]>>) :
                          rd \in {storage_area_readv(st, c, secpos + apos,
                                                     align)}}} : TRUE

storage_area_record_update(st, c, record, data) ==
    IF (~STORAGE_AREA_FOVRWRITE(c)) /\ (~STORAGE_AREA_LOVRWRITE(c))
    THEN R(st, "ENOTSUP")
    ELSE IF (~storage_area_record_valid(st, c, record)) \/
            (c.crc_skip < Len(data))
    THEN R(st, "EINVAL")
    ELSE update_loop(st, c, record.sector * c.sector_size,
                     record.loc + SAS_HDRSIZE,
                     SAS_ALIGNDOWN(record.loc + SAS_HDRSIZE, c.write_size),
                     data, Len(data))

\* The records of a full cursor walk: storage_area_record_next from a
\* record with store = NULL until it fails.
RECURSIVE walk_from(_, _, _, _)
walk_from(st, c, record, acc) ==
    CHOOSE res \in
        {IF nx.rc # "0" THEN acc
         ELSE walk_from(st, c, nx.record, Append(acc, nx.record)) :
         nx \in {storage_area_record_next(st, c, record)}} : TRUE

Walk(st, c) ==
    walk_from(st, c, [store |-> FALSE, sector |-> 0, loc |-> 0, size |-> 0],
              <<>>)

(***************************************************************************)
(* The state machine: one store, its medium and one caller.                *)
(***************************************************************************)
VARIABLES
    cfg,      \* the storage area and the store (constant), with the caller's
              \* compact callbacks cb and the keys it writes
    mem,      \* the medium: byte offset -> byte
    sector,   \* store->data->sector
    loc,      \* store->data->loc
    wrapcnt,  \* store->data->wrapcnt
    ready,    \* store->data->ready
    wlog,     \* the device operations of the last call
    walk,     \* what a full cursor walk returns in this state: the records
              \* with their payload and the verdict of store_record_valid
    last,     \* the last call: its name, return code and argument, the
              \* runtime data and the walk before it, the call before it
    written,  \* the payloads of the successful writev calls, in order
    placed,   \* adv: the number of successful advance calls; at: for each
              \* successful writev the number of advance calls before it
    um,       \* the store when it went down last (unmount, power cut): the
              \* runtime data and the walk before, the call before, and
              \* the record and the write block corrupted since
    nops,     \* number of calls so far
    thr       \* two threads that share the store, with
              \* CONFIG_STORAGE_AREA_STORE_SEMAPHORE: pc, the position of
              \* each thread in the entry point it runs, and sem, the count
              \* of data->semaphore

vars == <<cfg, mem, sector, loc, wrapcnt, ready, wlog, walk, last, written,
          placed, um, nops, thr>>

\* the state a call starts from, with fuel device operations before the
\* power is cut (-1: the power stays on)
StFuel(fuel) ==
    [mem |-> mem, sector |-> sector, loc |-> loc, wrapcnt |-> wrapcnt,
     ready |-> ready, log |-> <<>>, fuel |-> fuel, cut |-> FALSE, rc |-> "0",
     badrd |-> {}, badwr |-> {}]

St == StFuel(0 - 1)

Data == [sector |-> sector, loc |-> loc, wrapcnt |-> wrapcnt, ready |-> ready]

\* the walk in state s
Observe(s, c) ==
    CHOOSE res \in
        {[i \in 1..Len(w) |->
             [sector |-> w[i].sector, loc |-> w[i].loc, size |-> w[i].size,
              data |-> Payload(s, c, w[i]),
              valid |-> store_record_valid(s, c, w[i])]] :
         w \in {Walk(s, c)}} : TRUE

WalkPayloads(w) == [i \in 1..Len(w) |-> w[i].data]

\* simple circular buffer on a medium that the store erases (the ram area
\* of the tests: no property)
CfgScb ==
    [write_size |-> 4, erase_size |-> 32, erase_blocks |-> 3, props |-> {},
     sector_size |-> 32, sector_cnt |-> 3, spare_sectors |-> 0,
     cookie |-> <<>>, crc_skip |-> 0, api |-> "scb",
     cb |-> NoCb, keys |-> {1}, lens |-> {2, 8}, split |-> TRUE]

\* simple circular buffer on a medium with full overwrite, with a cookie
CfgScbFovr ==
    [CfgScb EXCEPT !.props = {"FOVRWRITE"}, !.cookie = <<33, 78>>]

\* persistent circular buffer on nor flash: key 1 is kept, key 2 is not
CfgPcb ==
    [CfgScb EXCEPT !.props = {"LOVRWRITE"}, !.api = "pcb",
                   !.spare_sectors = 1, !.crc_skip = 1,
                   !.cb = [move |-> "keys", keep |-> {1}, move_cb |-> "NULL"],
                   !.keys = {1, 2}]

\* the payload of the next write: its key, the number of the write, zeros
NewPayload(key, len) ==
    [i \in 1..len |-> IF i = 1 THEN key
                      ELSE IF i = 2 THEN Len(written) + 1 ELSE 0]

\* the caller's spans of a payload: one span, or the key and the rest
Spans(p, split) ==
    IF split THEN {<<p>>, <<Take(p, 1), Drop(p, 1)>>} ELSE {<<p>>}

\* the erased medium of a storage area
Erased(c) ==
    [i \in 0..(STORAGE_AREA_SIZE(c) - 1) |-> STORAGE_AREA_ERASEVALUE(c)]

\* the state after construction: a store in one of the configurations over
\* the medium medium[cfg]
InitOn(configs, medium) ==
    /\ cfg \in configs
    /\ mem = medium[cfg]
    /\ sector = 0
    /\ loc = 0
    /\ wrapcnt = 0
    /\ ready = FALSE
    /\ wlog = <<>>
    /\ walk = <<>>
    /\ last = [op |-> "init", rc |-> "0", arg |-> <<>>,
               data |-> [sector |-> 0, loc |-> 0, wrapcnt |-> 0,
                         ready |-> FALSE],
               walk |-> <<>>, prev |-> "init"]
    /\ written = <<>>
    /\ placed = [adv |-> 0, at |-> <<>>]
    /\ um = [valid |-> FALSE, data |-> [sector |-> 0, loc |-> 0,
                                         wrapcnt |-> 0, ready |-> FALSE],
             walk |-> <<>>, after |-> "init", torn |-> 0, block |-> 0]
    /\ nops = 0
    /\ thr = [pc |-> <<"idle", "idle">>, sem |-> 0]

InitWith(configs) == InitOn(configs, [c \in configs |-> Erased(c)])

\* the call op with argument arg returned in state s
Returns(op, arg, s) ==
    /\ mem' = s.mem
    /\ sector' = s.sector
    /\ loc' = s.loc
    /\ wrapcnt' = s.wrapcnt
    /\ ready' = s.ready
    /\ wlog' = s.log
    /\ walk' = Observe(s, cfg)
    /\ last' = [op |-> op, rc |-> s.rc, arg |-> arg, data |-> Data,
                walk |-> walk, prev |-> last.op]
    /\ nops' = nops + 1
    /\ UNCHANGED <<cfg, thr>>

\* the store goes down after the call op
Down(op) ==
    um' = [valid |-> ready, data |-> Data, walk |-> walk, after |-> op,
           torn |-> 0, block |-> 0]

Mount(max) ==
    /\ nops < max
    /\ Returns("mount", <<>>, storage_area_store_mount(St, cfg, cfg.cb))
    /\ UNCHANGED <<written, placed, um>>

Unmount(max) ==
    /\ nops < max
    /\ Returns("unmount", <<>>, storage_area_store_unmount(St))
    /\ Down(last.op)
    /\ UNCHANGED <<written, placed>>

Writev(max) ==
    /\ nops < max
    /\ \E key \in cfg.keys, len \in cfg.lens :
         \E iovec \in Spans(NewPayload(key, len), cfg.split) :
           \E s \in {storage_area_store_writev(St, cfg, iovec)} :
             LET p == NewPayload(key, len)
             IN  /\ Returns("writev", p, s)
                 /\ written' = IF Ok(s) THEN Append(written, p) ELSE written
                 /\ placed' = IF Ok(s)
                               THEN [placed EXCEPT !.at = Append(@, placed.adv)]
                               ELSE placed
    /\ UNCHANGED um

Advance(max) ==
    /\ nops < max
    /\ \E s \in {storage_area_store_advance(St, cfg)} :
         /\ Returns("advance", <<>>, s)
         /\ placed' = IF Ok(s) THEN [placed EXCEPT !.adv = @ + 1] ELSE placed
    /\ UNCHANGED <<written, um>>

Compact(max) ==
    /\ nops < max
    /\ \E s \in {storage_area_store_compact(St, cfg, cfg.cb)} :
         /\ Returns("compact", <<>>, s)
         /\ placed' = IF Ok(s) THEN [placed EXCEPT !.adv = @ + 1] ELSE placed
    /\ UNCHANGED <<written, um>>

\* the bytes the caller writes over the start of a record
UpdateData == {<<0>>, <<0, 0, 0, 0, 0, 0>>}

\* the caller updates the start of the payload of a record of the walk
Update(max) ==
    /\ nops < max
    /\ \E i \in 1..Len(walk), data \in UpdateData :
         Returns("update", <<i, data>>,
                 storage_area_record_update(St, cfg,
                     [store |-> TRUE, sector |-> walk[i].sector,
                      loc |-> walk[i].loc, size |-> walk[i].size], data))
    /\ UNCHANGED <<written, placed, um>>

Wipe(max) ==
    /\ nops < max
    /\ Returns("wipe", <<>>, storage_area_store_wipe(St, cfg))
    /\ UNCHANGED <<written, placed, um>>

\* the record the caller holds: the one the last storage_area_record_next
\* returned, or a record with store = NULL
Held ==
    IF (last.op = "next") /\ (last.rc = "0") THEN last.arg[1]
    ELSE [store |-> FALSE, sector |-> 0, loc |-> 0, size |-> 0]

\* the caller steps its cursor: the argument of the call is the record
\* that storage_area_record_next leaves in *record
RecordNext(max) ==
    /\ nops < max
    /\ \E nx \in {storage_area_record_next(St, cfg, Held)} :
         Returns("next", <<nx.record>>, R(St, nx.rc))
    /\ UNCHANGED <<written, placed, um>>

\* the caller reads the whole payload of the record it was given: the argument
\* of the call is the record and the bytes read
RecordRead(max) ==
    /\ nops < max
    /\ last.op = "next"
    /\ last.rc = "0"
    /\ \E rd \in {storage_area_record_readv(St, cfg, last.arg[1], 0,
                                            last.arg[1].size)} :
         Returns("read", <<last.arg[1], rd.data>>, R(St, rd.rc))
    /\ UNCHANGED <<written, placed, um>>

(***************************************************************************)
(* Spec: a simple circular buffer, mounted, written, advanced, unmounted.  *)
(***************************************************************************)
Init == InitWith({CfgScb, CfgScbFovr})

Next == Mount(MaxOps) \/ Unmount(MaxOps) \/ Writev(MaxOps) \/ Advance(MaxOps)

Spec == Init /\ [][Next]_vars

(***************************************************************************)
(* SpecSessions: a logger on a medium with full overwrite works in three   *)
(* sessions; the lengths of the payloads it writes are free.               *)
(***************************************************************************)
CfgLog ==
    [CfgScbFovr EXCEPT !.sector_size = 64, !.sector_cnt = 2,
                       !.erase_size = 64, !.erase_blocks = 2,
                       !.split = FALSE]

\* the calls of the three sessions
Sessions ==
    <<"mount", "writev", "advance", "writev", "writev", "writev", "unmount",
      "mount", "advance", "writev", "writev", "unmount",
      "mount">>

\* the next call of the sessions is op
Planned(op) == (nops < Len(Sessions)) /\ (Sessions[nops + 1] = op)

InitSessions == InitWith({CfgLog})

NextSessions ==
    \/ Planned("mount") /\ Mount(Len(Sessions))
    \/ Planned("unmount") /\ Unmount(Len(Sessions))
    \/ Planned("writev") /\ Writev(Len(Sessions))
    \/ Planned("advance") /\ Advance(Len(Sessions))

SpecSessions == InitSessions /\ [][NextSessions]_vars

(***************************************************************************)
(* SpecPersist: a persistent circular buffer; the caller mounts, writes    *)
(* and compacts when a write found no space.                               *)
(***************************************************************************)
InitPersist == InitWith({CfgPcb})

MountFirst ==
    /\ last.op = "init"
    /\ Mount(MaxOpsPersist)

CompactOnNoSpace ==
    /\ last.op = "writev"
    /\ last.rc = "ENOSPC"
    /\ Compact(MaxOpsPersist)

NextPersist == MountFirst \/ Writev(MaxOpsPersist) \/ CompactOnNoSpace

SpecPersist == InitPersist /\ [][NextPersist]_vars

(***************************************************************************)
(* SpecCut: a persistent circular buffer on nor flash; the power is cut    *)
(* inside a compaction and the store is mounted again after the restart.   *)
(***************************************************************************)
\* the power is cut after fuel device operations of a compaction: the
\* medium stays as it is, the runtime data starts again as zeros
CompactCut ==
    /\ nops < MaxOpsCut
    /\ ready
    /\ \E fuel \in 0..MaxFuel :
         \E s \in {storage_area_store_compact(StFuel(fuel), cfg, cfg.cb)} :
           /\ s.cut
           /\ Returns("cut", <<fuel>>,
                      [s EXCEPT !.sector = 0, !.loc = 0, !.wrapcnt = 0,
                                !.ready = FALSE])
    /\ Down("compact")
    /\ UNCHANGED <<written, placed>>

MountAfterCut ==
    /\ last.op \in {"init", "cut"}
    /\ Mount(MaxOpsCut)

InitCut == InitWith({[CfgPcb EXCEPT !.split = FALSE]})

NextCut ==
    MountAfterCut \/ Writev(MaxOpsCut) \/ Compact(MaxOpsCut) \/ CompactCut

SpecCut == InitCut /\ [][NextCut]_vars

(***************************************************************************)
(* SpecTorn: a simple circular buffer; while the store is unmounted one    *)
(* write block of the frame of one record reads as zeros.                  *)
(***************************************************************************)
\* the number of write blocks of the frame of a record
FrameBlocks(c, r) ==
    SAS_ALIGNUP(SAS_HDRSIZE + r.size + SAS_CRCSIZE, c.write_size) \div
        c.write_size

\* the medium with the write block at offset off cleared
TornMem(c, m, off) ==
    [i \in DOMAIN m |->
        IF (off <= i) /\ (i < off + c.write_size) THEN 0 ELSE m[i]]

Corrupt ==
    /\ nops < MaxOpsTorn
    /\ last.op = "unmount"
    /\ um.valid
    /\ \E i \in 1..Len(um.walk) :
         \E b \in 0..(FrameBlocks(cfg, um.walk[i]) - 1) :
           LET off == um.walk[i].sector * cfg.sector_size + um.walk[i].loc +
                      b * cfg.write_size
           IN  \E s \in {[St EXCEPT !.mem = TornMem(cfg, mem, off)]} :
                 /\ s.mem # mem
                 /\ Returns("corrupt", <<i, b>>, s)
                 /\ um' = [um EXCEPT !.torn = i, !.block = b]
    /\ UNCHANGED <<written, placed>>

InitTorn == InitWith({CfgScb})

NextTorn ==
    Mount(MaxOpsTorn) \/ Unmount(MaxOpsTorn) \/ Writev(MaxOpsTorn) \/
    Advance(MaxOpsTorn) \/ Corrupt

SpecTorn == InitTorn /\ [][NextTorn]_vars

(***************************************************************************)
(* SpecWrap: a simple circular buffer of two sectors; the caller mounts,   *)
(* writes, and advances when a write found no space.                       *)
(***************************************************************************)
CfgWrap ==
    [CfgScb EXCEPT !.sector_cnt = 2, !.erase_blocks = 2, !.split = FALSE]

CfgWrapFovr ==
    [CfgScbFovr EXCEPT !.sector_cnt = 2, !.erase_blocks = 2, !.split = FALSE]

AdvanceOnNoSpace ==
    /\ last.op = "writev"
    /\ last.rc = "ENOSPC"
    /\ Advance(MaxOpsWrap)

MountWrap ==
    /\ last.op = "init"
    /\ Mount(MaxOpsWrap)

InitWrap == InitWith({CfgWrap, CfgWrapFovr})

NextWrap == MountWrap \/ Writev(MaxOpsWrap) \/ AdvanceOnNoSpace

SpecWrap == InitWrap /\ [][NextWrap]_vars

(***************************************************************************)
(* SpecArea: a caller of the storage area writes and erases it directly.   *)
(***************************************************************************)
\* the offsets the caller writes at
AreaStarts == {0, 2, 4}

\* the spans the caller writes: a write block in one span, a write block in
\* two spans, two write blocks in three spans, less than a write block
AreaIovecs ==
    {<<<<1, 2, 3, 4>>>>, <<<<1>>, <<2, 3, 4>>>>,
     <<<<1, 2, 3>>, <<4, 5>>, <<6, 7, 8>>>>, <<<<1, 2, 3>>>>}

AreaWritev ==
    /\ nops < MaxOpsArea
    /\ \E start \in AreaStarts, iovec \in AreaIovecs :
         Returns("area_writev", <<start, iovec>>,
                 storage_area_writev(St, cfg, start, iovec))
    /\ UNCHANGED <<written, placed, um>>

AreaErase ==
    /\ nops < MaxOpsArea
    /\ \E sblk \in 0..(cfg.erase_blocks - 1) :
         Returns("area_erase", <<sblk>>, storage_area_erase(St, cfg, sblk, 1))
    /\ UNCHANGED <<written, placed, um>>

InitArea == InitWith({CfgScb, CfgScbFovr})

NextArea == AreaWritev \/ AreaErase

SpecArea == InitArea /\ [][NextArea]_vars

(***************************************************************************)
(* SpecUpdate: a simple circular buffer with crc_skip 8 on a medium with   *)
(* limited or full overwrite; the caller mounts, writes and updates the    *)
(* start of records in place.                                              *)
(***************************************************************************)
\* the caller mounts the store once, before any other call
MountOnce(max) ==
    /\ last.op = "init"
    /\ Mount(max)

\* nor flash with a write block of 4 bytes and of 8 bytes (the header of a
\* record and the start of its payload share a write block), and a medium
\* with full overwrite
InitUpdate ==
    InitWith({[CfgScb EXCEPT !.props = {"LOVRWRITE"}, !.crc_skip = 8,
                             !.lens = {2, 12}, !.split = FALSE],
              [CfgScb EXCEPT !.props = {"LOVRWRITE"}, !.crc_skip = 8,
                             !.lens = {2, 12}, !.split = FALSE,
                             !.write_size = 8],
              [CfgScbFovr EXCEPT !.crc_skip = 8, !.lens = {2, 12},
                                 !.split = FALSE]})

NextUpdate ==
    MountOnce(MaxOpsUpdate) \/ Writev(MaxOpsUpdate) \/ Update(MaxOpsUpdate)

SpecUpdate == InitUpdate /\ [][NextUpdate]_vars

(***************************************************************************)
(* SpecLife: the life cycle of a store in each mode; every call is made in *)
(* every state, mounted or not.  The read-only store is a view on a medium *)
(* that a simple circular buffer has written.                              *)
(***************************************************************************)
\* the medium of the read-only store: one record in sector 0, written by
\* a simple circular buffer with the same sectors
MediumLife(c) ==
    IF c.api # "ro" THEN Erased(c)
    ELSE CHOOSE m \in
             {store_writev(s1, [c EXCEPT !.api = "scb"],
                           <<<<1, 1, 0, 0, 0, 0, 0, 0>>>>).mem :
              s1 \in {storage_area_store_mount(
                          [mem |-> Erased(c), sector |-> 0, loc |-> 0,
                           wrapcnt |-> 0, ready |-> FALSE, log |-> <<>>,
                           fuel |-> 0 - 1, cut |-> FALSE, rc |-> "0",
                           badrd |-> {}, badwr |-> {}],
                          [c EXCEPT !.api = "scb"], NoCb)}} : TRUE

InitLife ==
    LET configs == {[CfgScb EXCEPT !.lens = {8}, !.split = FALSE],
                       [CfgPcb EXCEPT !.lens = {8}, !.split = FALSE, !.keys = {1}],
                       [CfgScb EXCEPT !.lens = {8}, !.split = FALSE, !.api = "ro"]}
    IN  InitOn(configs, [c \in configs |-> MediumLife(c)])

NextLife ==
    \/ Mount(MaxOpsLife)
    \/ Unmount(MaxOpsLife)
    \/ Writev(MaxOpsLife)
    \/ Advance(MaxOpsLife)
    \/ Compact(MaxOpsLife)
    \/ Wipe(MaxOpsLife)
    \/ RecordNext(MaxOpsLife)
    \/ RecordRead(MaxOpsLife)

SpecLife == InitLife /\ [][NextLife]_vars

(***************************************************************************)
(* SpecFault: mount on a failing medium.  During a mount the device may    *)
(* fail every read of some erase blocks, and every write and erase after   *)
(* the first few.  The store is mounted at the start, after a compaction   *)
(* that the power cut, and again after a mount.  The configurations are a  *)
(* simple circular buffer, a persistent one, a persistent one without      *)
(* spare sector (refused by the configuration check when a move callback   *)
(* is given) and a read-only store.                                        *)
(***************************************************************************)
\* the erase blocks that fail to read during a mount
BadBlocks(c) == {{}, {0}, 0..(c.erase_blocks - 1)}

MountFault ==
    /\ nops < MaxOpsFault
    /\ last.op \in {"init", "cut", "mount"}
    /\ \E fuel \in (0 - 1)..MaxFuelMount, bad \in BadBlocks(cfg) :
         \E s \in {storage_area_store_mount(
                       [StFuel(fuel) EXCEPT !.badrd = bad], cfg, cfg.cb)} :
           Returns("mount", <<fuel, bad>>, [s EXCEPT !.badrd = {}])
    /\ UNCHANGED <<written, placed, um>>

InitFault ==
    LET configs == {[CfgScb EXCEPT !.lens = {2}, !.split = FALSE],
                       [CfgPcb EXCEPT !.lens = {2}, !.split = FALSE, !.keys = {1}],
                       [CfgPcb EXCEPT !.lens = {2}, !.split = FALSE, !.keys = {1},
                                      !.spare_sectors = 0],
                       [CfgScb EXCEPT !.lens = {2}, !.split = FALSE, !.api = "ro"]}
    IN  InitOn(configs, [c \in configs |-> MediumLife(c)])

NextFault ==
    \/ MountFault
    \/ Writev(MaxOpsFault)
    \/ Compact(MaxOpsFault)
    \/ CompactCut

SpecFault == InitFault /\ [][NextFault]_vars

(***************************************************************************)
(* SpecSem: two threads call the entry points of one store, built with     *)
(* CONFIG_STORAGE_AREA_STORE_SEMAPHORE.  A step is one statement that      *)
(* reads or writes data->ready or data->semaphore, or the part of the      *)
(* entry point between store_take_semaphore and store_give_semaphore.      *)
(* What that part does to the medium is left out: the medium, sector, loc  *)
(* and wrapcnt do not change.  Whether the scan of a mount finds a record, *)
(* and whether an advance or a recovery succeeds, is any of the two.       *)
(* The positions of a thread:                                              *)
(*   idle      between two calls                                           *)
(*   ready     writev, advance, compact: before the check of store_ready   *)
(*   take      before store_take_semaphore                                 *)
(*   crit      before store->api->writev or store->api->advance            *)
(*   give      before store_give_semaphore                                 *)
(*   init      mount: before store_init_semaphore                          *)
(*   already   mount: before the check of data->ready                      *)
(*   take1, scan, give1   mount: the scan of store_mount_basic             *)
(*   after     mount: store_mount_basic has returned 0                     *)
(*   take2, advance, give2   mount: the advance or the recovery            *)
(*   unmount   unmount: before the check of data->ready                    *)
(***************************************************************************)
Threads == {1, 2}

\* thread t moves to position pc
Goto(t, pc) == [thr EXCEPT !.pc[t] = pc]

\* the medium and the runtime data other than ready do not change
Medium ==
    UNCHANGED <<cfg, mem, sector, loc, wrapcnt, wlog, walk, last, written,
                placed, um, nops>>

\* thread t calls writev, advance or compact ("ready"), mount ("init") or
\* unmount
SemCall ==
    \E t \in Threads :
        /\ thr.pc[t] = "idle"
        /\ \E pc \in {"ready", "init", "unmount"} : thr' = Goto(t, pc)
        /\ UNCHANGED ready
        /\ Medium

\* store_ready in writev, advance and compact
SemReady ==
    \E t \in Threads :
        /\ thr.pc[t] = "ready"
        /\ thr' = Goto(t, IF ready THEN "take" ELSE "idle")
        /\ UNCHANGED ready
        /\ Medium

\* store_init_semaphore: k_sem_init(&data->semaphore, 1, 1)
SemInit ==
    \E t \in Threads :
        /\ thr.pc[t] = "init"
        /\ thr' = [Goto(t, "already") EXCEPT !.sem = 1]
        /\ UNCHANGED ready
        /\ Medium

\* the check of data->ready in store_mount_basic: -EALREADY
SemAlready ==
    \E t \in Threads :
        /\ thr.pc[t] = "already"
        /\ thr' = Goto(t, IF ready THEN "idle" ELSE "take1")
        /\ UNCHANGED ready
        /\ Medium

\* store_take_semaphore: k_sem_take(&data->semaphore, K_FOREVER)
SemTake ==
    \E t \in Threads :
        /\ thr.pc[t] \in {"take", "take1", "take2"}
        /\ thr.sem = 1
        /\ thr' = [Goto(t, IF thr.pc[t] = "take" THEN "crit"
                           ELSE IF thr.pc[t] = "take1" THEN "scan"
                           ELSE "advance") EXCEPT !.sem = 0]
        /\ UNCHANGED ready
        /\ Medium

\* store_give_semaphore: k_sem_give(&data->semaphore), the limit is 1
SemGive ==
    \E t \in Threads :
        /\ thr.pc[t] \in {"give", "give1", "give2"}
        /\ thr' = [Goto(t, IF thr.pc[t] = "give1" THEN "after" ELSE "idle")
                      EXCEPT !.sem = 1]
        /\ UNCHANGED ready
        /\ Medium

\* store->api->writev or store->api->advance
SemCrit ==
    \E t \in Threads :
        /\ thr.pc[t] = "crit"
        /\ thr' = Goto(t, "give")
        /\ UNCHANGED ready
        /\ Medium

\* the scan of store_mount_basic: data->ready is set when a record is found
SemScan ==
    \E t \in Threads :
        /\ thr.pc[t] = "scan"
        /\ thr' = Goto(t, "give1")
        /\ \E found \in BOOLEAN : ready' = (found \/ ready)
        /\ Medium

\* store_mount_scb and store_mount_pcb after store_mount_basic returned 0
SemAfter ==
    \E t \in Threads :
        /\ thr.pc[t] = "after"
        /\ thr' = Goto(t, IF cfg.api = "ro" THEN "idle"
                          ELSE IF (cfg.api = "scb") /\ ready THEN "idle"
                          ELSE "take2")
        /\ UNCHANGED ready
        /\ Medium

\* store_mount_scb: the advance; store_mount_pcb: data->ready is cleared
\* and the recovery runs, or the advance; data->ready is set when rc is 0
SemAdvance ==
    \E t \in Threads :
        /\ thr.pc[t] = "advance"
        /\ thr' = Goto(t, "give2")
        /\ \E ok \in BOOLEAN :
             ready' = IF ok THEN TRUE
                      ELSE IF cfg.api = "pcb" THEN FALSE ELSE ready
        /\ Medium

\* storage_area_store_unmount: no semaphore is taken
SemUnmount ==
    \E t \in Threads :
        /\ thr.pc[t] = "unmount"
        /\ thr' = Goto(t, "idle")
        /\ ready' = FALSE
        /\ Medium

InitSem == InitWith({CfgScb, CfgPcb, [CfgScb EXCEPT !.api = "ro"]})

NextSem ==
    \/ SemCall
    \/ SemReady
    \/ SemInit
    \/ SemAlready
    \/ SemTake
    \/ SemGive
    \/ SemCrit
    \/ SemScan
    \/ SemAfter
    \/ SemAdvance
    \/ SemUnmount

SpecSem == InitSem /\ [][NextSem]_vars

(***************************************************************************)
(* SpecRace: a writer appends to and compacts a persistent circular buffer *)
(* with sectors of 64 bytes and records of 28 bytes (a frame of 36 bytes,  *)
(* longer than the copy buffer of store_move_record).  The writer can be   *)
(* suspended in a call, between two device operations; the walk of a       *)
(* suspended state is what a reader gets that runs its cursor then,        *)
(* without the semaphore.                                                  *)
(***************************************************************************)
\* the store when the writer is suspended in the call op (writev of the
\* payload p, or compact) after k device operations: the medium and the
\* runtime data are those of the call that is cut there.  store_writev
\* changes data->loc only when its write has returned (the retry after a
\* failed write is not on this path).
WriterAt(op, k, p) ==
    IF op = "writev"
    THEN [storage_area_store_writev(StFuel(k), cfg, <<p>>)
             EXCEPT !.sector = sector, !.loc = loc, !.wrapcnt = wrapcnt]
    ELSE storage_area_store_compact(StFuel(k), cfg, cfg.cb)

\* the writer is not suspended
Running == last.op # "suspended"

Suspend ==
    /\ nops < MaxOpsRace
    /\ Running
    /\ ready
    /\ \E op \in {"writev", "compact"}, k \in 0..MaxFuel :
         \E key \in cfg.keys, len \in cfg.lens :
           \E s \in {WriterAt(op, k, NewPayload(key, len))} :
             /\ s.cut
             /\ Returns("suspended", <<op, k>>, s)
    /\ UNCHANGED <<written, placed, um>>

InitRace ==
    InitWith({[CfgPcb EXCEPT !.sector_size = 64, !.erase_size = 64,
                             !.lens = {28}, !.split = FALSE, !.keys = {1}]})

NextRace ==
    \/ Running /\ MountOnce(MaxOpsRace)
    \/ Running /\ Writev(MaxOpsRace)
    \/ Running /\ Compact(MaxOpsRace)
    \/ Suspend

SpecRace == InitRace /\ [][NextRace]_vars

(***************************************************************************)
(* SpecSpace: a simple circular buffer with 3 sectors of 32 bytes, on an   *)
(* area of 8 erase blocks, is mounted and written until its sector is full *)
(* and beyond, with payloads of 2, 8 and 28 bytes (frames of 12, 16 and 36 *)
(* bytes), on write blocks of 4 and of 8 bytes.                            *)
(***************************************************************************)
InitSpace ==
    InitWith({[CfgScb EXCEPT !.lens = {2, 8, 28}, !.split = FALSE,
                             !.erase_blocks = 8],
              [CfgScb EXCEPT !.lens = {2, 8, 28}, !.split = FALSE,
                             !.erase_blocks = 8, !.write_size = 8]})

NextSpace == MountOnce(MaxOpsSpace) \/ Writev(MaxOpsSpace)

SpecSpace == InitSpace /\ [][NextSpace]_vars

(***************************************************************************)
(* SpecRetry: a simple circular buffer is mounted and written while the    *)
(* device fails: it cannot program the write blocks of bad during the      *)
(* call, or it fails for good after fuel device operations.  The payloads  *)
(* have 2 and 28 bytes (frames of 12 and 36 bytes in sectors of 32 bytes). *)
(***************************************************************************)
BadWrite(c) == {{}, {0}, {0, 1}, 0..((STORAGE_AREA_SIZE(c) \div c.write_size) - 1)}

WritevFault ==
    /\ nops < MaxOpsRetry
    /\ \E fuel \in (0 - 1)..MaxFuelRetry, bad \in BadWrite(cfg) :
         \E len \in cfg.lens :
           \E s \in {storage_area_store_writev(
                         [StFuel(fuel) EXCEPT !.badwr = bad], cfg,
                         <<NewPayload(1, len)>>)} :
             LET p == NewPayload(1, len)
             IN  /\ Returns("writev", <<p, fuel, bad>>,
                            [s EXCEPT !.badwr = {}])
                 /\ written' = IF Ok(s) THEN Append(written, p) ELSE written
                 /\ placed' = IF Ok(s)
                               THEN [placed EXCEPT !.at = Append(@, placed.adv)]
                               ELSE placed
    /\ UNCHANGED um

InitRetry ==
    InitWith({[CfgScb EXCEPT !.lens = {2, 28}, !.split = FALSE],
              [CfgScb EXCEPT !.lens = {2, 28}, !.split = FALSE,
                             !.write_size = 8]})

NextRetry == MountOnce(MaxOpsRetry) \/ WritevFault

SpecRetry == InitRetry /\ [][NextRetry]_vars

(***************************************************************************)
(* SpecAdvance: a store in each writable mode is mounted, written and      *)
(* advanced, on an erased medium and on a medium that the store has gone   *)
(* around 255 times.                                                       *)
(***************************************************************************)
\* the medium of a store whose wrap counter is 255: its last sector starts
\* with the cookie and holds one record
MediumWrapped(c) ==
    CHOOSE m \in
        {store_writev(s1, c, <<<<1, 1>>>>).mem :
         s1 \in {store_add_cookie(
                     [mem |-> Erased(c), sector |-> c.sector_cnt - 1,
                      loc |-> 0, wrapcnt |-> 255, ready |-> TRUE,
                      log |-> <<>>, fuel |-> 0 - 1, cut |-> FALSE,
                      rc |-> "0", badrd |-> {}, badwr |-> {}], c)}} : TRUE

ConfigsAdvance ==
    {[CfgScb EXCEPT !.lens = {8}, !.split = FALSE],
     [CfgScbFovr EXCEPT !.lens = {8}, !.split = FALSE],
     [CfgPcb EXCEPT !.lens = {8}, !.split = FALSE, !.keys = {1}]}

InitAdvance ==
    \/ InitWith(ConfigsAdvance)
    \/ InitOn(ConfigsAdvance, [c \in ConfigsAdvance |-> MediumWrapped(c)])

NextAdvance ==
    MountOnce(MaxOpsAdvance) \/ Writev(MaxOpsAdvance) \/ Advance(MaxOpsAdvance)

SpecAdvance == InitAdvance /\ [][NextAdvance]_vars

(***************************************************************************)
(* SpecErase: stores on a medium that the store erases (no full overwrite, *)
(* no auto erase) are mounted, written and advanced around the buffer:     *)
(* sectors of one erase block, of half an erase block and of two erase     *)
(* blocks.                                                                 *)
(***************************************************************************)
ConfigsErase ==
    {[CfgScb EXCEPT !.lens = {8}, !.split = FALSE],
     [CfgScb EXCEPT !.lens = {8}, !.split = FALSE, !.erase_size = 64,
                    !.erase_blocks = 2, !.sector_cnt = 4],
     [CfgScb EXCEPT !.lens = {8}, !.split = FALSE, !.erase_size = 16,
                    !.erase_blocks = 6],
     [CfgPcb EXCEPT !.lens = {8}, !.split = FALSE, !.keys = {1},
                    !.erase_size = 64, !.erase_blocks = 2, !.sector_cnt = 4,
                    !.spare_sectors = 2]}

InitErase == InitWith(ConfigsErase)

NextErase ==
    MountOnce(MaxOpsErase) \/ Writev(MaxOpsErase) \/ Advance(MaxOpsErase)

SpecErase == InitErase /\ [][NextErase]_vars

(***************************************************************************)
(* SpecCookie: stores with a sector cookie are mounted, written and        *)
(* advanced, and the cookie of each sector is read.                        *)
(***************************************************************************)
GetSectorCookie ==
    /\ nops < MaxOpsCookie
    /\ \E sec \in 0..(cfg.sector_cnt - 1) :
         \E rd \in {storage_area_store_get_sector_cookie(
                        St, cfg, sec, Len(cfg.cookie))} :
           Returns("cookie", <<sec, rd.data>>, R(St, rd.rc))
    /\ UNCHANGED <<written, placed, um>>

ConfigsCookie ==
    {[CfgScbFovr EXCEPT !.lens = {8}, !.split = FALSE],
     [CfgScb EXCEPT !.lens = {8}, !.split = FALSE,
                    !.cookie = <<33, 78, 86, 83>>],
     [CfgPcb EXCEPT !.lens = {8}, !.split = FALSE, !.keys = {1},
                    !.cookie = <<33, 78, 86, 83>>]}

InitCookie == InitWith(ConfigsCookie)

NextCookie ==
    \/ MountOnce(MaxOpsCookie)
    \/ Writev(MaxOpsCookie)
    \/ Advance(MaxOpsCookie)
    \/ GetSectorCookie

SpecCookie == InitCookie /\ [][NextCookie]_vars

(***************************************************************************)
(* SpecRo: a read-only store over a medium that holds one record; every    *)
(* call of the store is made in every state, mounted or not.               *)
(***************************************************************************)
Write(max) ==
    /\ nops < max
    /\ \E len \in cfg.lens :
         Returns("write", NewPayload(1, len),
                 storage_area_store_write(St, cfg, NewPayload(1, len)))
    /\ UNCHANGED <<written, placed, um>>

ConfigsRo == {[CfgScb EXCEPT !.lens = {2, 8}, !.api = "ro"]}

InitRo == InitOn(ConfigsRo, [c \in ConfigsRo |-> MediumLife(c)])

NextRo ==
    \/ Mount(MaxOpsRo)
    \/ Unmount(MaxOpsRo)
    \/ Writev(MaxOpsRo)
    \/ Write(MaxOpsRo)
    \/ Advance(MaxOpsRo)
    \/ Compact(MaxOpsRo)
    \/ Wipe(MaxOpsRo)

SpecRo == InitRo /\ [][NextRo]_vars

(***************************************************************************)
(* SpecRefuse: the caller updates records of the walk, records with a      *)
(* wrong size and a record in the free space of the write sector, on a     *)
(* medium without overwrite and on nor flash, with less and with more      *)
(* bytes than crc_skip, on a store that is mounted or not.                 *)
(***************************************************************************)
\* the records the caller passes to storage_area_record_update
UpdateRecords ==
    {[store |-> TRUE, sector |-> walk[i].sector, loc |-> walk[i].loc,
      size |-> walk[i].size + d] : i \in 1..Len(walk), d \in {0, 1}} \cup
    {[store |-> TRUE, sector |-> sector, loc |-> loc, size |-> 2]}

\* the argument of the call is the record, the data and whether the record
\* was valid (store_record_valid) before the call
UpdateAny ==
    /\ nops < MaxOpsRefuse
    /\ \E record \in UpdateRecords, data \in UpdateData :
         Returns("update",
                 <<record, data, store_record_valid(St, cfg, record)>>,
                 storage_area_record_update(St, cfg, record, data))
    /\ UNCHANGED <<written, placed, um>>

InitRefuse ==
    InitWith({[CfgScb EXCEPT !.crc_skip = 8, !.lens = {8}, !.split = FALSE],
              [CfgScb EXCEPT !.props = {"LOVRWRITE"}, !.crc_skip = 2,
                             !.lens = {8}, !.split = FALSE]})

NextRefuse ==
    \/ Mount(MaxOpsRefuse)
    \/ Unmount(MaxOpsRefuse)
    \/ Writev(MaxOpsRefuse)
    \/ UpdateAny

SpecRefuse == InitRefuse /\ [][NextRefuse]_vars

(***************************************************************************)
(* SpecReject: a caller writes an area of 32 bytes, writable or read-only, *)
(* at offsets inside, at and behind its end, with spans whose total length *)
(* is or is not a multiple of write_size, or is more than the area.        *)
(***************************************************************************)
RejectStarts == {0, 4, 28, 32, 36}

RejectIovecs ==
    {<<<<1, 2, 3, 4>>>>, <<<<1>>, <<2, 3, 4>>, <<5, 6, 7, 8>>>>,
     <<<<1, 2, 3>>>>, <<<<1, 2, 3>>, <<4, 5>>>>, <<Fill(36, 1)>>}

RejectWritev ==
    /\ nops < MaxOpsReject
    /\ \E start \in RejectStarts, iovec \in RejectIovecs :
         Returns("area_writev", <<start, iovec>>,
                 storage_area_writev(St, cfg, start, iovec))
    /\ UNCHANGED <<written, placed, um>>

RejectErase ==
    /\ nops < MaxOpsReject
    /\ Returns("area_erase", <<0>>, storage_area_erase(St, cfg, 0, 1))
    /\ UNCHANGED <<written, placed, um>>

InitReject ==
    InitWith({[CfgScb EXCEPT !.erase_blocks = 1, !.sector_cnt = 1],
              [CfgScb EXCEPT !.erase_blocks = 1, !.sector_cnt = 1,
                             !.props = {"READONLY"}]})

NextReject == RejectWritev \/ RejectErase

SpecReject == InitReject /\ [][NextReject]_vars

(***************************************************************************)
(* SpecBuffer: a caller writes a run of bytes to the storage area in spans *)
(* of any length, once, on an erased or on a written medium.               *)
(***************************************************************************)
\* the offsets the caller writes at
BufferStarts == {0, 2}

\* the bytes of a write of len bytes
BufferBytes(len) == [i \in 1..len |-> i]

\* the number of bytes in the first n spans of lengths lens
RECURSIVE BufferOffset(_, _)
BufferOffset(lens, n) ==
    IF n = 0 THEN 0 ELSE BufferOffset(lens, n - 1) + lens[n]

\* the spans of lengths lens, cut from the bytes of the write
BufferSpans(lens) ==
    [n \in 1..Len(lens) |->
        SubSeq(BufferBytes(BufferOffset(lens, Len(lens))),
               BufferOffset(lens, n - 1) + 1, BufferOffset(lens, n))]

\* the span lengths of the caller: up to MaxSpans spans, empty spans too,
\* of one or two write blocks together, or of less than a write block
BufferLens(c) ==
    {lens \in UNION {[1..n -> 0..(2 * c.write_size)] : n \in 1..MaxSpans} :
        BufferOffset(lens, Len(lens)) \in
            {c.write_size - 1, c.write_size, 2 * c.write_size}}

BufferWritev ==
    /\ last.op = "init"
    /\ \E start \in BufferStarts, lens \in BufferLens(cfg) :
         LET iovec == BufferSpans(lens)
         IN  Returns("buf_writev",
                     <<start, iovec, sa_flash_writev_bpos(cfg, iovec, 0)>>,
                     storage_area_writev(St, cfg, start, iovec))
    /\ UNCHANGED <<written, placed, um>>

\* a medium whose first write blocks were written before: the bytes at
\* 0..5 have their high bits programmed
BufferMedium(c) ==
    [i \in 0..(STORAGE_AREA_SIZE(c) - 1) |->
        IF i < 6 THEN 15 ELSE STORAGE_AREA_ERASEVALUE(c)]

\* the configurations of SpecBuffer
ConfigsBuffer == {CfgScb, CfgScbFovr, [CfgScb EXCEPT !.write_size = 2]}

InitBuffer ==
    \/ InitWith(ConfigsBuffer)
    \/ InitOn(ConfigsBuffer, [c \in ConfigsBuffer |-> BufferMedium(c)])

NextBuffer == BufferWritev

SpecBuffer == InitBuffer /\ [][NextBuffer]_vars

(***************************************************************************)
(* SpecAuto: a caller writes to a flash storage area that erases by        *)
(* itself (SA_PROP_AUTOERASE, no full overwrite).                          *)
(***************************************************************************)
\* the offsets the caller writes at
AutoStarts == {0, 28, 32, 60}

\* the spans the caller writes: in one erase block, over the end of an erase
\* block, an erase block and more
AutoIovecs ==
    {<<[i \in 1..4 |-> i]>>, <<[i \in 1..8 |-> i]>>,
     <<[i \in 1..4 |-> i], [i \in 1..32 |-> 4 + i]>>,
     <<[i \in 1..64 |-> i]>>}

AutoWritev ==
    /\ nops < MaxOpsAuto
    /\ \E start \in AutoStarts, iovec \in AutoIovecs :
         Returns("auto_writev", <<start, iovec>>,
                 storage_area_writev(St, cfg, start, iovec))
    /\ UNCHANGED <<written, placed, um>>

InitAuto ==
    InitWith({[CfgScb EXCEPT !.props = {"AUTOERASE"}],
              [CfgScb EXCEPT !.props = {"AUTOERASE", "LOVRWRITE"}]})

NextAuto == AutoWritev

SpecAuto == InitAuto /\ [][NextAuto]_vars

(***************************************************************************)
(* SpecOrder: a persistent circular buffer on nor flash; the caller writes *)
(* records of kept and of dropped keys and calls compact at any time.      *)
(***************************************************************************)
\* sectors of one erase block, sectors of two erase blocks, erase blocks of
\* two sectors
InitOrder ==
    InitWith({[CfgPcb EXCEPT !.split = FALSE],
              [CfgPcb EXCEPT !.split = FALSE, !.lens = {2},
                             !.sector_size = 64, !.erase_blocks = 6],
              [CfgPcb EXCEPT !.split = FALSE, !.erase_size = 64,
                             !.erase_blocks = 2, !.sector_cnt = 4,
                             !.spare_sectors = 2]})

NextOrder ==
    \/ MountOnce(MaxOpsOrder)
    \/ Writev(MaxOpsOrder)
    \/ Compact(MaxOpsOrder)

SpecOrder == InitOrder /\ [][NextOrder]_vars

(***************************************************************************)
(* SpecMove: a persistent circular buffer on nor flash whose compact       *)
(* callbacks are move and move_cb; a record may lose bits on the medium.   *)
(***************************************************************************)
\* the second byte of the payload of a record of the walk reads as zero
Rot ==
    /\ nops < MaxOpsMove
    /\ ready
    /\ \E i \in 1..Len(walk) :
         LET off == walk[i].sector * cfg.sector_size + walk[i].loc +
                    SAS_HDRSIZE + 1
         IN  \E s \in {[St EXCEPT !.mem = [mem EXCEPT ![off] = 0]]} :
               /\ s.mem # mem
               /\ Returns("rot", <<i>>, s)
    /\ UNCHANGED <<written, placed, um>>

\* the configurations of SpecMove: sectors of one erase block, of two erase
\* blocks, erase blocks of two sectors, write blocks of 8 bytes and a cookie
ConfigsMove ==
    {[c EXCEPT !.cb = [move |-> "keys", keep |-> {1}, move_cb |-> "log"],
               !.split = FALSE] :
        c \in {CfgPcb,
               [CfgPcb EXCEPT !.lens = {2}, !.sector_size = 64,
                              !.erase_blocks = 6],
               [CfgPcb EXCEPT !.erase_size = 64, !.erase_blocks = 2,
                              !.sector_cnt = 4, !.spare_sectors = 2],
               [CfgPcb EXCEPT !.write_size = 8, !.cookie = <<33, 78>>]}}

InitMove == InitWith(ConfigsMove)

NextMove ==
    \/ MountOnce(MaxOpsMove)
    \/ Writev(MaxOpsMove)
    \/ Compact(MaxOpsMove)
    \/ Rot

SpecMove == InitMove /\ [][NextMove]_vars

(***************************************************************************)
(* SpecValid: the caller asks whether a record is valid, on a mounted and  *)
(* on an unmounted store.                                                  *)
(***************************************************************************)
\* the argument of the call is the record and whether its stored crc
\* matches the crc of its payload on the medium
RecordValid ==
    /\ nops < MaxOpsValid
    /\ \E record \in UpdateRecords :
         Returns("valid", <<record, store_record_valid(St, cfg, record)>>,
                 R(St, IF storage_area_record_valid(St, cfg, record)
                       THEN "true" ELSE "false"))
    /\ UNCHANGED <<written, placed, um>>

InitValid ==
    InitWith({[CfgScb EXCEPT !.lens = {8}, !.split = FALSE],
              [CfgPcb EXCEPT !.lens = {8}, !.split = FALSE]})

NextValid ==
    \/ Mount(MaxOpsValid)
    \/ Unmount(MaxOpsValid)
    \/ Writev(MaxOpsValid)
    \/ RecordValid

SpecValid == InitValid /\ [][NextValid]_vars

(***************************************************************************)
(* SpecRange: stores of the three modes are mounted on an erased medium    *)
(* and on a medium that holds a record, and used.                          *)
(***************************************************************************)
ConfigsRange ==
    {[CfgScb EXCEPT !.lens = {8}, !.split = FALSE],
     [CfgScbFovr EXCEPT !.lens = {8}, !.split = FALSE],
     [CfgPcb EXCEPT !.lens = {8}, !.split = FALSE, !.keys = {1}],
     [CfgScb EXCEPT !.lens = {8}, !.split = FALSE, !.api = "ro"]}

InitRange ==
    \/ InitWith(ConfigsRange)
    \/ InitOn(ConfigsRange, [c \in ConfigsRange |-> MediumLife(c)])

NextRange ==
    \/ Mount(MaxOpsRange)
    \/ Unmount(MaxOpsRange)
    \/ Writev(MaxOpsRange)
    \/ Advance(MaxOpsRange)
    \/ Compact(MaxOpsRange)

SpecRange == InitRange /\ [][NextRange]_vars

(***************************************************************************)
(* SpecScan: a reader steps a cursor through a store that is being         *)
(* written; each storage_area_record_next is entered with the reads that   *)
(* its scans made.                                                         *)
(***************************************************************************)
\* the record the reader holds: the one the last step returned, or a record
\* with store = NULL
Cursor ==
    IF (last.op = "scan") /\ (last.rc = "0") THEN last.arg[1]
    ELSE [store |-> FALSE, sector |-> 0, loc |-> 0, size |-> 0]

\* the reader steps its cursor: the argument of the call is the record that
\* storage_area_record_next leaves in *record, the reads of the call and the
\* record the call was given
ScanNext ==
    /\ nops < MaxOpsScan
    /\ ready
    /\ \E nx \in {record_next_trace(St, cfg, cursor_record(St, cfg, Cursor),
                                    <<>>)} :
         Returns("scan", <<nx.record, nx.reads, Cursor>>, R(St, nx.rc))
    /\ UNCHANGED <<written, placed, um>>

\* a medium that was written all around: a simple circular buffer with the
\* sectors of c wrote a record to each of its sectors and advanced
RECURSIVE FilledFrom(_, _, _)
FilledFrom(st, c, n) ==
    IF n = 0 THEN st
    ELSE CHOOSE res \in
             {FilledFrom(s2, c, n - 1) :
              s2 \in {store_advance_scb(s1, c) :
                      s1 \in {store_writev(st, c,
                                  <<<<1, n, 0, 0, 0, 0, 0, 0>>>>)}}} : TRUE

MediumFilled(c) ==
    CHOOSE m \in
        {FilledFrom(s1, [c EXCEPT !.api = "scb"], c.sector_cnt).mem :
         s1 \in {storage_area_store_mount(
                     [mem |-> Erased(c), sector |-> 0, loc |-> 0,
                      wrapcnt |-> 0, ready |-> FALSE, log |-> <<>>,
                      fuel |-> 0 - 1, cut |-> FALSE, rc |-> "0",
                      badrd |-> {}, badwr |-> {}],
                     [c EXCEPT !.api = "scb"], NoCb)}} : TRUE

\* a simple circular buffer on nor flash and on a medium with full
\* overwrite, persistent circular buffers with one and with two spare sectors
ConfigsScan ==
    {[CfgScb EXCEPT !.lens = {8}, !.split = FALSE],
     [CfgScbFovr EXCEPT !.lens = {8}, !.split = FALSE],
     [CfgPcb EXCEPT !.lens = {8}, !.split = FALSE, !.keys = {1}],
     [CfgPcb EXCEPT !.lens = {8}, !.split = FALSE, !.keys = {1},
                    !.sector_cnt = 4, !.erase_blocks = 4,
                    !.spare_sectors = 2]}

InitScan ==
    \/ InitWith(ConfigsScan)
    \/ InitOn(ConfigsScan, [c \in ConfigsScan |-> MediumFilled(c)])

NextScan ==
    \/ MountOnce(MaxOpsScan)
    \/ Writev(MaxOpsScan)
    \/ Advance(MaxOpsScan)
    \/ Compact(MaxOpsScan)
    \/ ScanNext

SpecScan == InitScan /\ [][NextScan]_vars

(***************************************************************************)
(* SpecRecover: persistent circular buffers on nor flash, with a sector of *)
(* one erase block and with a sector of two erase blocks; the power is cut *)
(* inside a compaction and the store is mounted again after the restart.   *)
(***************************************************************************)
InitRecover ==
    InitWith({[CfgPcb EXCEPT !.split = FALSE, !.lens = {8}],
              [CfgPcb EXCEPT !.split = FALSE, !.lens = {8},
                             !.sector_size = 64, !.erase_blocks = 6]})

SpecRecover == InitRecover /\ [][NextCut]_vars

(***************************************************************************)
(* SpecFrame: stores written with empty payloads and with payloads of 8    *)
(* bytes, whose frames of 16 bytes fill a sector of 32 bytes exactly.      *)
(***************************************************************************)
InitFrame ==
    InitWith({[CfgScb EXCEPT !.lens = {0, 8}, !.split = FALSE],
              [CfgScbFovr EXCEPT !.lens = {0, 8}, !.split = FALSE],
              [CfgPcb EXCEPT !.lens = {0, 8}, !.split = FALSE, !.keys = {1}]})

NextFrame ==
    \/ Mount(MaxOpsFrame)
    \/ Unmount(MaxOpsFrame)
    \/ Writev(MaxOpsFrame)
    \/ Advance(MaxOpsFrame)

SpecFrame == InitFrame /\ [][NextFrame]_vars

(***************************************************************************)
(* Claims.                                                                 *)
(***************************************************************************)
\* how often payload x is in the walk w
Count(w, x) == Cardinality({i \in 1..Len(w) : w[i].data = x})

\* C1.  Round trip: when writev succeeded with payload X on a mounted
\* store, the cursor walk yields exactly one record that reads X.
C1_RoundTrip ==
    ((last.op = "writev") /\ (last.rc = "0")) => (Count(walk, last.arg) = 1)

\* C2.  Durability: a mount that follows the unmount of a mounted store
\* succeeds and the cursor walk reads the same sequence of records as
\* before the unmount.
C2_Durability ==
    ((last.op = "mount") /\ (last.prev = "unmount") /\ um.valid) =>
        ((last.rc = "0") /\ (WalkPayloads(walk) = WalkPayloads(um.walk)))

\* C3.  Ordering: the cursor walk returns the records in the order in which
\* they were appended; no record is returned before a record that was
\* written earlier (the second payload byte is the number of the write).
C3_Ordering ==
    \A i, j \in 1..Len(walk) : (i < j) => (walk[i].data[2] < walk[j].data[2])

\* the keys that the caller wrote
WrittenKeys == {written[i][1] : i \in 1..Len(written)}

\* the keys of the records of walk w
WalkKeys(w) == {w[i].data[1] : i \in 1..Len(w)}

\* C4.  Persistence: in a persistent circular buffer whose move callback
\* keeps the keys of cfg.cb.keep, after writes, each followed by compact
\* when it found no space, every kept key that was written has a record in
\* the cursor walk.
C4_Persistence ==
    (cfg.cb.keep \cap WrittenKeys) \subseteq WalkKeys(walk)

\* C5.  Power loss during compaction: when the power was cut inside a
\* compaction, the mount after the restart succeeds and every record that
\* the walk returned before the compaction and that move keeps is returned
\* by the walk after the mount.
C5_PowerLoss ==
    ((last.op = "mount") /\ (last.prev = "cut")) =>
        /\ last.rc = "0"
        /\ \A i \in 1..Len(um.walk) :
              (um.walk[i].data[1] \in cfg.cb.keep) =>
                  (Count(walk, um.walk[i].data) > 0)

\* the walk w returns a record at the place of record r
Returned(w, r) ==
    \E j \in 1..Len(w) : (w[j].sector = r.sector) /\ (w[j].loc = r.loc)

\* C6.  Torn write tolerance: when one write block of the frame of one
\* record was corrupted between unmount and mount, the walk after the mount
\* does not return that record and returns every other record that the walk
\* returned before.
C6_TornWrite ==
    ((last.op = "mount") /\ (last.prev = "corrupt") /\ (last.rc = "0")) =>
        \A i \in 1..Len(um.walk) :
            IF i = um.torn THEN ~Returned(walk, um.walk[i])
                           ELSE Count(walk, um.walk[i].data) > 0

\* C7.  Every record that the cursor walk returns is CRC valid, and when a
\* frame was corrupted the valid frame that follows it is still returned.
C7_CrcValid ==
    /\ ready => (\A i \in 1..Len(walk) : walk[i].valid)
    /\ ((last.op = "mount") /\ (last.prev = "corrupt") /\ (last.rc = "0") /\
        (um.torn < Len(um.walk))) =>
           Returned(walk, um.walk[um.torn + 1])

\* the bytes of the frames appended by the successful writev calls
RECURSIVE Appended(_, _)
Appended(c, w) ==
    IF w = <<>> THEN 0
    ELSE SAS_ALIGNUP(SAS_HDRSIZE + Len(Head(w)) + SAS_CRCSIZE, c.write_size) +
         Appended(c, Tail(w))

\* payload x is a record of the current log: it was written, and fewer
\* than sector_cnt advances were made since
Current(c, x) ==
    \E n \in 1..Len(written) :
        (written[n] = x) /\ ((placed.adv - placed.at[n]) < c.sector_cnt)

\* C8.  Wrap: in a simple circular buffer, after appends (with advance on
\* no space) of more than sector_cnt * sector_size bytes, the walk does not
\* return the oldest record and every record it returns is CRC valid and a
\* record of the current log.
C8_Wrap ==
    (ready /\ (Appended(cfg, written) > cfg.sector_cnt * cfg.sector_size)) =>
        /\ Count(walk, written[1]) = 0
        /\ \A i \in 1..Len(walk) :
              walk[i].valid /\ Current(cfg, walk[i].data)

\* a wrapped log with records
C8_Witness ==
    /\ ready
    /\ Appended(cfg, written) > cfg.sector_cnt * cfg.sector_size
    /\ Len(walk) > 1

\* C9.  Idempotent mount: a mount that follows the unmount of a mounted
\* store restores the sector, loc and wrapcnt of before the unmount; so
\* mount, unmount, mount leaves what the first mount left.
C9_IdempotentMount ==
    ((last.op = "mount") /\ (last.prev = "unmount") /\ um.valid) =>
        (Data = um.data)

\* C10.  Alignment: every write that a storage area writev issues to the
\* medium starts at a multiple of write_size and its length is a multiple
\* of write_size.
C10_Alignment ==
    \A i \in 1..Len(wlog) :
        (wlog[i].op = "write") =>
            (((wlog[i].off % cfg.write_size) = 0) /\
             ((wlog[i].len % cfg.write_size) = 0))

\* the offset of the payload of record r on the medium
PayloadStart(c, r) == r.sector * c.sector_size + r.loc + SAS_HDRSIZE

\* C11.  Update invariance: an update of record r with len <= crc_skip
\* bytes that succeeds changes only the first len bytes of the payload of r;
\* every other byte of the medium is unchanged, and r is still CRC valid
\* and still returned by the cursor walk.
C11_Update ==
    [][((last'.op = "update") /\ (last'.rc = "0")) =>
          LET r == walk[last'.arg[1]]
              n == SAS_MIN(Len(last'.arg[2]), r.size)
              start == PayloadStart(cfg, r)
          IN  /\ \A k \in DOMAIN mem :
                    ((k < start) \/ (k >= start + n)) => (mem'[k] = mem[k])
              /\ \E j \in 1..Len(walk') :
                    /\ walk'[j].sector = r.sector
                    /\ walk'[j].loc = r.loc
                    /\ walk'[j].valid]_vars

\* an update succeeded and changed the payload of a record
C11_Witness ==
    /\ last.op = "update"
    /\ last.rc = "0"
    /\ Len(last.arg[2]) > cfg.write_size
    /\ WalkPayloads(walk) # WalkPayloads(last.walk)
\* C12.  storage_area_store_writev, storage_area_store_advance and
\* storage_area_store_compact called on a store that is not mounted return
\* an error and leave sector, loc, wrapcnt, ready and the medium unchanged.
C12_Unmounted ==
    [][((last'.op \in {"writev", "advance", "compact"}) /\ ~ready) =>
          /\ last'.rc # "0"
          /\ mem' = mem
          /\ <<sector', loc', wrapcnt', ready'>> =
             <<sector, loc, wrapcnt, ready>>]_vars

\* compact was called on a store that was unmounted with a record on the
\* medium
C12_Witness ==
    /\ last.op = "compact"
    /\ last.prev = "unmount"
    /\ ~last.data.ready
    /\ last.rc = "EINVAL"
    /\ written # <<>>

\* C13.  storage_area_record_next and the record reads require a mounted
\* store: called on a store that is not mounted (never mounted, or
\* unmounted) they fail, and so return no record.
C13_NotMounted ==
    ((last.op \in {"next", "read"}) /\ ~last.data.ready) => (last.rc # "0")

\* C14.  storage_area_store_wipe is permitted only when the store is
\* unmounted: on a mounted store it returns an error and erases nothing (no
\* erase reaches the device, the medium and the runtime data are unchanged);
\* on an unmounted writable store it succeeds, every byte of every erase
\* block of the area has the erase value afterwards, and the store stays
\* unmounted.
C14_Wipe ==
    [][(last'.op = "wipe") =>
          IF ready
          THEN /\ last'.rc # "0"
               /\ mem' = mem
               /\ wlog' = <<>>
               /\ <<sector', loc', wrapcnt', ready'>> =
                  <<sector, loc, wrapcnt, ready>>
          ELSE (cfg.api # "ro") =>
                  /\ last'.rc = "0"
                  /\ \A blk \in 0..(cfg.erase_blocks - 1) :
                        \A i \in 0..(cfg.erase_size - 1) :
                           mem'[blk * cfg.erase_size + i] =
                              STORAGE_AREA_ERASEVALUE(cfg)
                  /\ ~ready']_vars

\* an unmounted store that held records was wiped: the walk is empty now
C14_Witness ==
    /\ last.op = "wipe"
    /\ last.rc = "0"
    /\ last.prev = "unmount"
    /\ last.walk # <<>>
    /\ walk = <<>>

\* C15.  storage_area_store_mount on a store that is already mounted returns
\* -EALREADY in every mode (read-only, simple and persistent circular
\* buffer) and leaves sector, loc, wrapcnt, ready and the medium unchanged;
\* no device operation is made: the persistent circular buffer runs no
\* recovery and no advance.
C15_AlreadyMounted ==
    [][((last'.op = "mount") /\ ready) =>
          /\ last'.rc = "EALREADY"
          /\ mem' = mem
          /\ wlog' = <<>>
          /\ <<sector', loc', wrapcnt', ready'>> =
             <<sector, loc, wrapcnt, ready>>]_vars

\* a mounted persistent circular buffer with a record was mounted again
C15_Witness ==
    /\ last.op = "mount"
    /\ last.data.ready
    /\ last.rc = "EALREADY"
    /\ cfg.api = "pcb"
    /\ walk # <<>>

\* C16.  A mount that returns an error leaves the store unmounted
\* (ready = false), in every mode and for every failure point.
C16_FailedMount ==
    ((last.op = "mount") /\ (last.rc # "0")) => ~ready

\* C16, amended.  A mount of a store that is not mounted, when it returns an
\* error, leaves ready = false, in every mode and for every failure point
\* (configuration check, scan, initial advance, recovery).
C16_FailedMountUnmounted ==
    ((last.op = "mount") /\ (last.rc # "0") /\ ~last.data.ready) => ~ready

\* the recovery of a cut compaction failed after its first device
\* operations
C16_Witness ==
    /\ last.op = "mount"
    /\ last.prev = "cut"
    /\ last.rc # "0"
    /\ wlog # <<>>
    /\ ~ready

\* C17.  Read errors during mount are propagated: when a read of the storage
\* area fails while mount scans the sectors (the device cannot read erase
\* block 0, where the scan starts), mount returns that error, not success.
C17_ReadErrors ==
    ((last.op = "mount") /\ ~last.data.ready /\ (0 \in last.arg[2]) /\
     (last.rc # "EINVAL")) => (last.rc = "EIO")

\* thread t is between store_take_semaphore and store_give_semaphore
Inside(t) == thr.pc[t] \in {"crit", "scan", "advance", "give", "give1", "give2"}

\* C18.  With the semaphore enabled the mutating entry points (writev,
\* advance, compact, mount, unmount) are mutually exclusive: in no
\* interleaving of two threads are both in the part of an entry point that
\* changes the store, between taking and giving the semaphore.
C18_Mutex == ~(Inside(1) /\ Inside(2))

\* C19.  A reader that walks the store with storage_area_record_next without
\* the semaphore, between two device operations of a writer in writev or
\* compact, never gets a record that is only partially written: every
\* record it gets is a frame whose write or move had completed, that is, a
\* record with a valid CRC or a record the walk returned before the call.
C19_NoPartial ==
    (last.op = "suspended") =>
        \A i \in 1..Len(walk) :
            \/ walk[i].valid
            \/ \E j \in 1..Len(last.walk) : last.walk[j] = walk[i]

\* the length of the frame of a payload, aligned to the write block
FrameLen(c, payload) ==
    SAS_ALIGNUP(SAS_HDRSIZE + Len(payload) + SAS_CRCSIZE, c.write_size)

\* C20.  writev on a mounted store returns -ENOSPC exactly when the space
\* left in the write sector, sector_size - loc, is smaller than the frame
\* length aligned to the write block; it then makes no device operation and
\* leaves sector, loc and wrapcnt as they were: no advance, no compaction.
C20_NoSpace ==
    ((last.op = "writev") /\ last.data.ready) =>
        /\ (last.rc = "ENOSPC") <=>
              (cfg.sector_size - last.data.loc < FrameLen(cfg, last.arg))
        /\ (last.rc = "ENOSPC") =>
              /\ wlog = <<>>
              /\ <<sector, loc, wrapcnt>> =
                 <<last.data.sector, last.data.loc, last.data.wrapcnt>>

\* the first write of the frame of a writev fails: the device is down, or
\* the frame starts in a write block that the device cannot program
FirstFails(c, data, fuel, bad) ==
    (fuel = 0) \/
    (((data.sector * c.sector_size + data.loc) \div c.write_size) \in bad)

\* C21: when the underlying write of a frame fails, writev returns 0 or
\* NoSpace (the retry loop terminates), it leaves sector and wrapcnt alone,
\* and loc, which never exceeds sector_size, has advanced by k write blocks
\* for the k failed writes, and by the aligned frame length when 0 is
\* returned; NoSpace is returned at the first write block from which the
\* frame no longer fits in the sector.
C21_Retry ==
    ((last.op = "writev") /\ (Len(last.arg) = 3) /\ last.data.ready /\
     FirstFails(cfg, last.data, last.arg[2], last.arg[3])) =>
        /\ last.rc \in {"0", "ENOSPC"}
        /\ loc <= cfg.sector_size
        /\ <<sector, wrapcnt>> = <<last.data.sector, last.data.wrapcnt>>
        /\ (cfg.sector_size - last.data.loc < FrameLen(cfg, last.arg[1])) \/
           \E k \in 1..(cfg.sector_size \div cfg.write_size) :
             LET at == last.data.loc + k * cfg.write_size
                 fits == ~(cfg.sector_size - at < FrameLen(cfg, last.arg[1]))
             IN  IF last.rc = "0"
                 THEN fits /\ (loc = at + FrameLen(cfg, last.arg[1]))
                 ELSE (~fits) /\ (loc = at) /\
                      ~(cfg.sector_size - (at - cfg.write_size) <
                            FrameLen(cfg, last.arg[1]))

\* C22: a successful advance moves the write sector to (sector + 1) mod
\* sector_cnt, increments wrapcnt modulo 256 exactly when the new sector is
\* 0, and sets loc to the aligned size of the cookie (0 without cookie).
C22_Advance ==
    ((last.op = "advance") /\ (last.rc = "0")) =>
        /\ sector = (last.data.sector + 1) % cfg.sector_cnt
        /\ wrapcnt = IF sector = 0 THEN (last.data.wrapcnt + 1) % 256
                                   ELSE last.data.wrapcnt
        /\ loc = SAS_ALIGNUP(Len(cfg.cookie), cfg.write_size)

\* an advance from the last sector to sector 0 has taken wrapcnt from 255
\* to 0
C22_Witness ==
    /\ last.op = "advance"
    /\ last.rc = "0"
    /\ last.data.sector = cfg.sector_cnt - 1
    /\ last.data.wrapcnt = 255
    /\ <<sector, wrapcnt>> = <<0, 0>>

\* the erase operations in the log of a call
Erases(log) == SelectSeq(log, LAMBDA e : e.op = "erase")

\* the record r lies in the erased bytes off..(off + len - 1)
InErased(c, r, off, len) ==
    /\ off <= r.sector * c.sector_size + r.loc
    /\ r.sector * c.sector_size + r.loc < off + len

\* C23: on a medium without full overwrite and without auto erase a
\* successful advance erases exactly when the new sector starts on an erase
\* block boundary, and then max(1, sector_size / erase_size) blocks from
\* the block of the new sector on and no block ahead of them: every record
\* of the walk before the advance that lies outside these blocks is still
\* on the medium, valid and with its payload.
C23_Erase ==
    ((last.op = "advance") /\ (last.rc = "0") /\
     (~STORAGE_AREA_FOVRWRITE(cfg)) /\ (~STORAGE_AREA_AUTOERASE(cfg))) =>
        LET E == cfg.erase_size
            off == ((sector * cfg.sector_size) \div E) * E
            len == SAS_MAX(1, cfg.sector_size \div E) * E
        IN  /\ Erases(wlog) =
                  IF ((sector * cfg.sector_size) % E) = 0
                  THEN <<[op |-> "erase", off |-> off, len |-> len]>>
                  ELSE <<>>
            /\ \A i \in 1..Len(last.walk) :
                 \/ InErased(cfg, last.walk[i], off, len)
                 \/ \E r \in {[store |-> TRUE, sector |-> last.walk[i].sector,
                                loc |-> last.walk[i].loc,
                                size |-> last.walk[i].size]} :
                      /\ store_record_valid(St, cfg, r) = last.walk[i].valid
                      /\ Payload(St, cfg, r) = last.walk[i].data

\* an advance has erased the erase block of the new sector while a record
\* of the walk lies outside it
C23_Witness ==
    /\ last.op = "advance"
    /\ last.rc = "0"
    /\ Erases(wlog) # <<>>
    /\ \E i \in 1..Len(last.walk) :
         ~InErased(cfg, last.walk[i], Erases(wlog)[1].off, Erases(wlog)[1].len)

\* C24: with a cookie configured, after mount and any number of advances,
\* storage_area_store_get_sector_cookie returns the configured cookie for
\* every sector of the store.
C24_Cookie ==
    ((last.op = "cookie") /\ last.data.ready) =>
        /\ last.rc = "0"
        /\ last.arg[2] = cfg.cookie

\* C25: in read-only mode writev, write, advance, compact and wipe return
\* an error, whether the store is mounted or not, and change neither the
\* medium, which no call of a read-only store changes, nor the runtime
\* state.
C25_ReadOnly ==
    (cfg.api = "ro") =>
        /\ mem = MediumLife(cfg)
        /\ (last.op \in {"writev", "write", "advance", "compact", "wipe"}) =>
              /\ last.rc # "0"
              /\ wlog = <<>>
              /\ Data = last.data

\* a writev on a mounted read-only store and a wipe of an unmounted one
\* were refused
C25_Witness ==
    /\ cfg.api = "ro"
    /\ \/ (last.op \in {"writev", "write"}) /\ last.data.ready
       \/ (last.op = "wipe") /\ ~last.data.ready
    /\ last.rc = "ENOTSUP"

\* C26: storage_area_record_update writes nothing and returns NotSupported
\* when the area has neither full nor limited overwrite, and InvalidArgument
\* when it is given more than crc_skip bytes or a record that is not
\* CRC-valid.
C26_UpdateRefused ==
    (last.op = "update") =>
        IF (~STORAGE_AREA_FOVRWRITE(cfg)) /\ (~STORAGE_AREA_LOVRWRITE(cfg))
        THEN (last.rc = "ENOTSUP") /\ (wlog = <<>>)
        ELSE ((Len(last.arg[2]) > cfg.crc_skip) \/ ~last.arg[3]) =>
                 (last.rc = "EINVAL") /\ (wlog = <<>>)

\* the range of a write of iovec at start exceeds the area, or its total
\* length is not a multiple of write_size
BadWritev(c, start, iovec) ==
    \/ start + store_iovec_size(iovec) > STORAGE_AREA_SIZE(c)
    \/ (store_iovec_size(iovec) % c.write_size) # 0

\* C27: a storage area writev whose range exceeds the area or whose total
\* length is not a multiple of write_size returns an error (-EINVAL), a
\* writev on a read-only area returns ReadOnly (-EROFS); in each case no
\* device operation is made and the medium is unchanged.
C27_Rejected ==
    [][(last'.op = "area_writev") =>
          LET bad == BadWritev(cfg, last'.arg[1], last'.arg[2])
          IN  /\ bad => (last'.rc = "EINVAL")
              /\ (STORAGE_AREA_READONLY(cfg) /\ ~bad) => (last'.rc = "EROFS")
              /\ (bad \/ STORAGE_AREA_READONLY(cfg)) =>
                    (mem' = mem) /\ (wlog' = <<>>)]_vars

\* a write that starts inside the area and ends behind it was refused after
\* a write had changed the medium
C27_Witness ==
    /\ last.op = "area_writev"
    /\ last.arg[1] < STORAGE_AREA_SIZE(cfg)
    /\ last.arg[1] + store_iovec_size(last.arg[2]) > STORAGE_AREA_SIZE(cfg)
    /\ (store_iovec_size(last.arg[2]) % cfg.write_size) = 0
    /\ last.rc = "EINVAL"
    /\ mem # Erased(cfg)

\* the writes of log are one after the other from start and are len bytes
\* together
RECURSIVE Delivered(_, _, _)
Delivered(log, start, len) ==
    IF log = <<>> THEN len = 0
    ELSE /\ Head(log).op = "write"
         /\ Head(log).off = start
         /\ Head(log).len > 0
         /\ Delivered(Tail(log), start + Head(log).len, len - Head(log).len)

\* C28.  Write block buffering: a writev of spans of any lengths that are
\* a multiple of write_size together returns 0; its writes to the medium
\* are one after the other from the offset and carry the bytes of the spans
\* in their order, so the medium holds the spans at offset..offset+S and no
\* other byte changes; no byte is left in the buffer.
C28_Buffering ==
    [][((last'.op = "buf_writev") /\
        ((store_iovec_size(last'.arg[2]) % cfg.write_size) = 0)) =>
          LET start == last'.arg[1]
              data == Concat(last'.arg[2])
          IN  /\ last'.rc = "0"
              /\ Delivered(wlog', start, Len(data))
              /\ \A i \in DOMAIN mem :
                    mem'[i] = IF (start <= i) /\ (i < start + Len(data))
                              THEN ProgByte(cfg, mem[i], data[i - start + 1])
                              ELSE mem[i]
              /\ last'.arg[3] = 0]_vars

\* a write of two write blocks in three spans, none of them a multiple of
\* write_size, is on the medium
C28_Witness ==
    /\ last.op = "buf_writev"
    /\ last.rc = "0"
    /\ Len(last.arg[2]) = 3
    /\ \A n \in 1..3 : (Len(last.arg[2][n]) % cfg.write_size) # 0
    /\ store_iovec_size(last.arg[2]) = 2 * cfg.write_size
    /\ Len(wlog) > 1
    /\ \A i \in 1..(2 * cfg.write_size) : mem[last.arg[1] + i - 1] = i

\* the offsets of the erases of log, in their order
ErasedAt(log) ==
    SelectSeq(log, LAMBDA e : e.op = "erase")

\* the erase blocks whose first byte is in start..start+len-1
Entered(c, start, len) ==
    {b \in 0..(c.erase_blocks - 1) :
        (start <= b * c.erase_size) /\ (b * c.erase_size < start + len)}

\* C29.  Auto erase: a write of len bytes at start on a flash area with
\* auto erase and without full overwrite that returns 0 erases the erase
\* blocks that it enters at their first byte, each of them once and no
\* other block, and after it the medium holds the data at start..start+len-1:
\* in a block that the write erased the bytes of the data, in the block the
\* write starts in the bytes of the data programmed over what was there.
C29_AutoErase ==
    [][((last'.op = "auto_writev") /\ (last'.rc = "0")) =>
          LET start == last'.arg[1]
              data == Concat(last'.arg[2])
              ers == ErasedAt(wlog')
              blocks == Entered(cfg, start, Len(data))
          IN  /\ Len(ers) = Cardinality(blocks)
              /\ \A b \in blocks :
                    \E n \in 1..Len(ers) :
                       /\ ers[n].off = b * cfg.erase_size
                       /\ ers[n].len = cfg.erase_size
              /\ \A i \in start..(start + Len(data) - 1) :
                    mem'[i] = IF (i \div cfg.erase_size) \in blocks
                              THEN data[i - start + 1]
                              ELSE ProgByte(cfg, mem[i], data[i - start + 1])]_vars

\* the sectors whose records a compact on a store at sector sec copies
Reclaimed(c, sec) ==
    LET ns == (sec + 1) % c.sector_cnt
        scnt == SAS_MAX(1, c.erase_size \div c.sector_size)
    IN  IF ((ns * c.sector_size) % c.erase_size) # 0 THEN {}
        ELSE {(ns + c.spare_sectors + k) % c.sector_cnt : k \in 0..(scnt - 1)}

\* record r of the walk before a compact on a store at sector sec is copied
Copied(c, sec, r) ==
    /\ r.data[1] \in c.cb.keep
    /\ r.sector \in Reclaimed(c, sec)

\* record n of the walk w is a copy of record r
CopyOf(w, n, r) ==
    /\ w[n].data = r.data
    /\ <<w[n].sector, w[n].loc>> # <<r.sector, r.loc>>

MoveCbs(log) == {q \in 1..Len(log) : log[q].op = "move_cb"}

\* the length of the frame of a record of size bytes on the medium
AlignedFrame(c, size) ==
    SAS_ALIGNUP(SAS_HDRSIZE + size + SAS_CRCSIZE, c.write_size)

\* the number of writes that the copy of a frame of size bytes takes
CopyWrites(c, size) ==
    (AlignedFrame(c, size) + BufSize(c) - 1) \div BufSize(c)

\* the wrapcnt of the store when it wrote to sector sec during the call that
\* left the store at sector cur with wrap counter wc
WrapcntAt(sec, cur, wc) == IF sec <= cur THEN wc ELSE (wc + 255) % 256

\* C31.  Moving records: in a compact that returns 0 every call of move_cb
\* comes right behind the writes of one copy: the frame at the destination
\* holds the bytes of the source frame (size, payload and crc) with the
\* wrap counter of the store in byte 1, it is CRC valid, the source was a
\* CRC valid record that move keeps, and the next copy or loc is the
\* aligned frame length further; move_cb is called once per source and once
\* for every kept record of the walk in the sectors that compact copies
\* from; every other write of the compact is the cookie of a sector, so a
\* record that move drops or that is not CRC valid is not copied.
C31_Move ==
    [][((last'.op = "compact") /\ (last'.rc = "0")) =>
          LET log == wlog'
              cbs == MoveCbs(log)
              copies == UNION {(q - CopyWrites(cfg, log[q].len))..(q - 1) :
                               q \in cbs}
              after == [St EXCEPT !.mem = mem']
              rec(off, size) == [store |-> TRUE, size |-> size,
                                 sector |-> off \div cfg.sector_size,
                                 loc |-> off % cfg.sector_size]
          IN  /\ \A q \in cbs :
                    LET e == log[q]
                        n == CopyWrites(cfg, e.len)
                        al == AlignedFrame(cfg, e.len)
                    IN  /\ q > n
                        /\ Delivered(SubSeq(log, q - n, q - 1), e.dst, al)
                        /\ \A k \in 0..(SAS_HDRSIZE + e.len + SAS_CRCSIZE - 1) :
                              mem'[e.dst + k] =
                                 IF k = 1
                                 THEN WrapcntAt(e.dst \div cfg.sector_size,
                                                sector', wrapcnt')
                                 ELSE mem[e.off + k]
                        /\ store_record_valid(after, cfg, rec(e.dst, e.len))
                        /\ store_record_valid(St, cfg, rec(e.off, e.len))
                        /\ mem[e.off + SAS_HDRSIZE] \in cfg.cb.keep
                        /\ IF \E q2 \in cbs : q2 > q
                           THEN \E q2 \in cbs :
                                   /\ q2 > q
                                   /\ \/ log[q2].dst = e.dst + al
                                      \/ (log[q2].dst \div cfg.sector_size) #
                                         (e.dst \div cfg.sector_size)
                                   /\ \A q3 \in cbs : (q3 > q) => (q3 >= q2)
                           ELSE sector' * cfg.sector_size + loc' = e.dst + al
                        /\ \A q2 \in cbs : (q2 # q) => (log[q2].off # e.off)
              /\ \A i \in 1..Len(walk) :
                    (Copied(cfg, sector, walk[i]) /\ walk[i].valid) =>
                        \E q \in cbs :
                           log[q].off = walk[i].sector * cfg.sector_size +
                                        walk[i].loc
              /\ \A q \in 1..Len(log) :
                    ((log[q].op = "write") /\ (q \notin copies)) =>
                        /\ cfg.cookie # <<>>
                        /\ (log[q].off % cfg.sector_size) = 0
                        /\ log[q].len = SAS_ALIGNUP(Len(cfg.cookie),
                                                    cfg.write_size)]_vars

\* a compact copied a kept record and called move_cb for it, and did not
\* copy a kept record of the same sector that had lost bits
C31_Witness ==
    /\ last.op = "compact"
    /\ last.rc = "0"
    /\ last.prev = "rot"
    /\ Cardinality(MoveCbs(wlog)) = 1
    /\ \E i, k \in 1..Len(last.walk) :
         /\ Copied(cfg, last.data.sector, last.walk[i])
         /\ last.walk[i].valid
         /\ last.walk[k].sector = last.walk[i].sector
         /\ last.walk[k].data[1] \in cfg.cb.keep
         /\ ~last.walk[k].valid

\* C32.  storage_area_record_valid returns true only for a record whose
\* stored crc matches the crc of its payload, and returns false for a record
\* of a store that is not mounted.
C32_RecordValid ==
    ((last.op = "valid") /\ (last.rc = "true")) =>
        (last.arg[2] /\ last.data.ready)

\* C33.  The runtime data stays in range: after a mount call returned, with
\* or without success, and after every writev, advance and compact, sector
\* is less than sector_cnt, loc is at most sector_size and loc is a multiple
\* of write_size.
C33_Range ==
    (last.op \in {"mount", "writev", "advance", "compact"}) =>
        /\ sector >= 0
        /\ sector < cfg.sector_cnt
        /\ loc >= 0
        /\ loc <= cfg.sector_size
        /\ (loc % cfg.write_size) = 0

\* the header reads of a call, in order
HdrReads(reads) == SelectSeq(reads, LAMBDA e : e.kind = "hdr")

\* the read e stays in the sector that is scanned
InSector(c, e) ==
    (e.sector * c.sector_size <= e.off) /\
    (e.off + e.len <= (e.sector + 1) * c.sector_size)

\* C34.  A step of the cursor ends with a record or with NotFound; with
\* recovery the scan of a sector steps over an invalid frame by exactly
\* write_size, reads no byte outside the sector it scans, and returns no frame
\* of the write sector that starts at or beyond loc.
C34_Scan ==
    (last.op = "scan") =>
        /\ last.rc \in {"0", "ENOENT"}
        /\ \A i \in 1..(Len(HdrReads(last.arg[2])) - 1) :
               LET h == HdrReads(last.arg[2])
               IN  (h[i].sector = h[i + 1].sector) =>
                       (h[i + 1].off = h[i].off + cfg.write_size)
        /\ \A i \in 1..Len(last.arg[2]) : InSector(cfg, last.arg[2][i])
        /\ ((last.rc = "0") /\ (last.arg[1].sector = sector)) =>
               (last.arg[1].loc < loc)

\* the spare sectors: the c.spare_sectors sectors that follow the write sector
SpareSectors(c, sec) ==
    {(sec + k) % c.sector_cnt : k \in 1..c.spare_sectors}

\* C35.  A cursor started with record.store = NULL begins at sector
\* (sector + spare_sectors + 1) mod sector_cnt, visits the sectors in circular
\* order and stops at the write sector; no step of a cursor returns a record
\* located in the spare sectors that follow the write sector.
C35_Cursor ==
    (last.op = "scan") =>
        LET reads == last.arg[2]
        IN  /\ (~last.arg[3].store) =>
                   /\ reads # <<>>
                   /\ reads[1].sector =
                          (sector + cfg.spare_sectors + 1) % cfg.sector_cnt
            /\ \A i \in 1..(Len(reads) - 1) :
                   /\ reads[i + 1].sector \in
                          {reads[i].sector,
                           (reads[i].sector + 1) % cfg.sector_cnt}
                   /\ (reads[i].sector = sector) =>
                          (reads[i + 1].sector = sector)
            /\ \A i \in 1..Len(reads) :
                   reads[i].sector \notin SpareSectors(cfg, sector)
            /\ (last.rc = "ENOENT") => (last.arg[1].sector = sector)
            /\ (last.rc = "0") =>
                   (last.arg[1].sector \notin SpareSectors(cfg, sector))

\* a cursor started with record.store = NULL returned a record while a spare
\* sector starts with the header of a record
C35_Witness ==
    /\ last.op = "scan"
    /\ last.rc = "0"
    /\ ~last.arg[3].store
    /\ cfg.spare_sectors > 0
    /\ \E s \in SpareSectors(cfg, sector) :
           mem[s * cfg.sector_size] = SAS_MAGIC

\* the sectors that a compaction into the sector after sec reclaims
Window(c, sec) ==
    {(sec + c.spare_sectors + 1 + k) % c.sector_cnt :
        k \in 0..(SAS_MAX(1, c.erase_size \div c.sector_size) - 1)}

\* the sectors that the recovery rolls back from sec: those from the start
\* of the erase block of sec to sec
RolledBack(c, sec) ==
    {s \in 0..sec :
        sec - s <= ((sec * c.sector_size) % c.erase_size) \div c.sector_size}

\* the records of the walk w in the sectors secs that are valid and, with
\* kept, that move retains
CountIn(w, secs, kept) ==
    Cardinality({i \in 1..Len(w) :
                    /\ w[i].sector \in secs
                    /\ w[i].valid
                    /\ kept => (w[i].data[1] \in cfg.cb.keep)})

\* C36.  Recovery at the mount of a persistent circular buffer: with V the
\* number of valid records in the rolled back sectors and M the number of
\* records of the reclamation window that move retains, a mount with V >= M
\* or M = 0 writes nothing and leaves (sector, loc, wrapcnt) as the mount
\* scan found them; otherwise the mount runs the compaction again from the
\* rolled back sector.
C36_Recover ==
    [][((last'.op = "mount") /\ (cfg.cb.move # "NULL")) =>
          \E basic \in {store_mount_basic(St, cfg)} :
              (Ok(basic) /\ basic.ready) =>
                  \E back \in {recover_reverse(basic, cfg, 0).st} :
                      LET M == CountIn(Observe(back, cfg),
                                       Window(cfg, back.sector), TRUE)
                          V == CountIn(Observe(basic, cfg),
                                       RolledBack(cfg, basic.sector), FALSE)
                      IN  IF (M = 0) \/ (V >= M)
                          THEN /\ wlog' = <<>>
                               /\ last'.rc = "0"
                               /\ sector' = basic.sector
                               /\ loc' = basic.loc
                               /\ wrapcnt' = basic.wrapcnt
                          ELSE \E adv \in {store_advance_pcb(back, cfg,
                                                             cfg.cb)} :
                                   /\ mem' = adv.mem
                                   /\ last'.rc = adv.rc
                                   /\ sector' = adv.sector
                                   /\ loc' = adv.loc
                                   /\ wrapcnt' = adv.wrapcnt]_vars

\* C37.  Every frame that writev accepts is a frame that the scan of a sector
\* accepts: when writev returned 0 for a payload of P bytes at loc, the size
\* check of the scan, 0 < P < sector_size - loc - 8, holds and the walk
\* returns the record, at the write position of the call.
C37_Accepted ==
    ((last.op = "writev") /\ (last.rc = "0")) =>
        /\ 0 < Len(last.arg)
        /\ Len(last.arg) < cfg.sector_size - last.data.loc - 8
        /\ \E i \in 1..Len(walk) :
               /\ walk[i].sector = last.data.sector
               /\ walk[i].loc = last.data.loc
               /\ walk[i].data = last.arg

\* C38.  writev of a payload whose frame of 4 + P + 4 bytes is longer than
\* the sector, or with P > 65535, returns NoSpace and writes nothing; no
\* writev writes a byte outside the write sector, and the size field of the
\* frame that a writev wrote holds P.
C38_Oversize ==
    ((last.op = "writev") /\ last.data.ready) =>
        LET P == Len(last.arg)
            secpos == last.data.sector * cfg.sector_size
        IN  /\ ((SAS_HDRSIZE + P + SAS_CRCSIZE > cfg.sector_size) \/
                (P > 65535)) =>
                   ((last.rc = "ENOSPC") /\ (wlog = <<>>))
            /\ \A i \in 1..Len(wlog) :
                   /\ secpos <= wlog[i].off
                   /\ wlog[i].off + wlog[i].len <= secpos + cfg.sector_size
            /\ (last.rc = "0") =>
                   (mem[secpos + last.data.loc + 2] +
                    256 * mem[secpos + last.data.loc + 3] = P)

\* C39.  A mount that returns 0 leaves the store mounted, with a write
\* position inside the store: ready is true, sector < sector_cnt and
\* loc <= sector_size.
C39_Mounted ==
    ((last.op = "mount") /\ (last.rc = "0")) =>
        /\ ready
        /\ sector < cfg.sector_cnt
        /\ loc <= cfg.sector_size

\* the bytes of m at off..off+len-1 are erased
ErasedRange(c, m, off, len) ==
    \A i \in off..(off + len - 1) : m[i] = STORAGE_AREA_ERASEVALUE(c)

\* C40.  On a medium without full overwrite the store programs no write
\* block that was programmed since its last erase: after a mount the write
\* blocks from loc to the end of the write sector are erased, and the writes
\* of a writev land on bytes that were erased before the call.
C40_Erased ==
    [][(~STORAGE_AREA_FOVRWRITE(cfg)) =>
          /\ ((last'.op = "mount") /\ (last'.rc = "0") /\ ready') =>
                 ErasedRange(cfg, mem', sector' * cfg.sector_size + loc',
                             cfg.sector_size - loc')
          /\ (last'.op = "writev") =>
                 \A i \in 1..Len(wlog') :
                     (wlog'[i].op = "write") =>
                         ErasedRange(cfg, mem, wlog'[i].off,
                                     wlog'[i].len)]_vars

====
